---- MODULE Spec2Model ----
(***************************************************************************)
(* Attention primitives of src/models/components/primitives.py.            *)
(*                                                                         *)
(* Tensors are rank-4 records [shape, val]; a tensor of lower rank carries *)
(* leading dimensions of size 1.  Numbers are exact rationals <<n, d>> in  *)
(* lowest terms.  exp is modelled on the grid of twelfths as               *)
(* Exp(x) = 2^(12x): strictly increasing, with Exp(x+y) = Exp(x).Exp(y),   *)
(* which is what softmax and its chunked re-scaling rely on; rounding of   *)
(* floating point is not modelled.                                         *)
(***************************************************************************)
EXTENDS Integers, Sequences, FiniteSets, TLC

VARIABLES
    ds4s_is_installed, \* whether deepspeed.ops.deepspeed4science was found
    self,      \* the module object the call is made on (its fields and parameters)
    args,      \* the arguments of the call in progress, as the caller holds them
    pc,        \* the position of the call
    locals,    \* the local tensors of the call
    work,      \* the numeric steps the call has executed, in order
    ret        \* what the call returned or raised

vars == <<ds4s_is_installed, self, args, pc, locals, work, ret>>

\* Largest axis length (queries, keys) of the inputs drawn.
MaxLen == 2

\* Largest batch size of the inputs drawn.
MaxBatch == 2

(***************************************************************************)
(* Exact rational arithmetic.                                              *)
(***************************************************************************)
Abs(n) == IF n < 0 THEN -n ELSE n

RECURSIVE GCD(_, _)
GCD(a, b) == IF b = 0 THEN a ELSE GCD(b, a % b)

RNorm(n, d) ==
    LET g == GCD(Abs(n), Abs(d))
        s == IF d < 0 THEN -1 ELSE 1
    IN  <<(s * n) \div g, (s * d) \div g>>

R(n) == <<n, 1>>

RZero == <<0, 1>>

RAdd(x, y) ==
    LET g == GCD(x[2], y[2])
    IN  RNorm(x[1] * (y[2] \div g) + y[1] * (x[2] \div g), (x[2] \div g) * y[2])

RNeg(x) == <<-x[1], x[2]>>

RSub(x, y) == RAdd(x, RNeg(y))

RMul(x, y) ==
    LET a == RNorm(x[1], y[2])
        b == RNorm(y[1], x[2])
    IN  <<a[1] * b[1], a[2] * b[2]>>

RInv(x) == IF x[1] < 0 THEN <<-x[2], -x[1]>> ELSE <<x[2], x[1]>>

RDiv(x, y) == RMul(x, RInv(y))

RLess(x, y) == x[1] * y[2] < y[1] * x[2]

RMax2(x, y) == IF RLess(x, y) THEN y ELSE x

RECURSIVE Pow2(_)
Pow2(n) == IF n = 0 THEN 1 ELSE 2 * Pow2(n - 1)

\* torch.exp, on the grid of twelfths: x = n/d with d dividing 12.
Exp(x) ==
    LET e == (12 * x[1]) \div x[2]
    IN  IF e >= 0 THEN <<Pow2(e), 1>> ELSE <<1, Pow2(-e)>>

\* Sum of f[lo..hi], by halves (the sum is exact, so its order is free).
RECURSIVE RSumRange(_, _, _)
RSumRange(f, lo, hi) ==
    IF hi < lo THEN RZero
    ELSE IF hi = lo THEN f[lo]
    ELSE RAdd(RSumRange(f, lo, (lo + hi) \div 2),
              RSumRange(f, ((lo + hi) \div 2) + 1, hi))

\* Sum and maximum of f[1..n].
RSumTo(f, n) == RSumRange(f, 1, n)

RECURSIVE RMaxTo(_, _)
RMaxTo(f, n) == IF n = 1 THEN f[1] ELSE RMax2(f[n], RMaxTo(f, n - 1))

(***************************************************************************)
(* Tensors.                                                                *)
(***************************************************************************)
Idx(shape) == (1..shape[1]) \X (1..shape[2]) \X (1..shape[3]) \X (1..shape[4])

\* The function f with every value computed once (TLC otherwise computes
\* f[x] again at every application).
Eager(f) == f @@ <<>>

\* A tensor keeps its values in row-major order; f gives the value at each
\* index of Idx(shape).
Size(shape) == shape[1] * shape[2] * shape[3] * shape[4]

Flat(shape, i) ==
    (((i[1] - 1) * shape[2] + (i[2] - 1)) * shape[3] + (i[3] - 1)) * shape[4] + i[4]

Unflat(shape, n) ==
    <<((n - 1) \div (shape[2] * shape[3] * shape[4])) + 1,
      (((n - 1) \div (shape[3] * shape[4])) % shape[2]) + 1,
      (((n - 1) \div shape[4]) % shape[3]) + 1,
      ((n - 1) % shape[4]) + 1>>

Tensor(shape, f) ==
    [shape |-> shape,
     val |-> Eager([n \in 1..Size(shape) |-> f[Unflat(shape, n)]])]

\* t[i]
At(t, i) == t.val[Flat(t.shape, i)]

\* The 4-tuple i with component d replaced by x.
SetAt(i, d, x) ==
    <<IF d = 1 THEN x ELSE i[1], IF d = 2 THEN x ELSE i[2],
      IF d = 3 THEN x ELSE i[3], IF d = 4 THEN x ELSE i[4]>>

Min(a, b) == IF a < b THEN a ELSE b

Max(a, b) == IF a < b THEN b ELSE a

\* A call's outcome: a tensor, or the exception it raised.
NoTensor == [shape |-> <<0, 0, 0, 0>>, val |-> <<>>]

Ok(t) == [err |-> "none", t |-> t]

Raise(e) == [err |-> e, t |-> NoTensor]

(***************************************************************************)
(* Tensor operations of torch used by the attention functions.             *)
(***************************************************************************)
\* permute_final_dims(t, (1, 0)): the last two axes swapped.
permute_final_dims(t) ==
    Tensor(<<t.shape[1], t.shape[2], t.shape[4], t.shape[3]>>,
           [i \in Idx(<<t.shape[1], t.shape[2], t.shape[4], t.shape[3]>>) |-> At(t, <<i[1], i[2], i[4], i[3]>>)])

\* t.transpose(-2, -3): axes 2 and 3 of 4 swapped.
transpose23(t) ==
    Tensor(<<t.shape[1], t.shape[3], t.shape[2], t.shape[4]>>,
           [i \in Idx(<<t.shape[1], t.shape[3], t.shape[2], t.shape[4]>>) |-> At(t, <<i[1], i[3], i[2], i[4]>>)])

\* torch.matmul(x, y) on [.., M, N] and [.., N, P].
matmul(x, y) ==
    Tensor(<<x.shape[1], x.shape[2], x.shape[3], y.shape[4]>>,
           [i \in Idx(<<x.shape[1], x.shape[2], x.shape[3], y.shape[4]>>) |-> RSumTo([n \in 1..x.shape[4] |->
                                 RMul(At(x, <<i[1], i[2], i[3], n>>),
                                      At(y, <<i[1], i[2], n, i[4]>>))],
                             x.shape[4])])

\* Whether a tensor of shape bs broadcasts into one of shape as, in place.
BroadcastsInto(bs, as) == \A d \in 1..4 : bs[d] = as[d] \/ bs[d] = 1

\* The index of a broadcast operand of shape bs that index i reads.
BIdx(i, bs) ==
    <<IF bs[1] = 1 THEN 1 ELSE i[1], IF bs[2] = 1 THEN 1 ELSE i[2],
      IF bs[3] = 1 THEN 1 ELSE i[3], IF bs[4] = 1 THEN 1 ELSE i[4]>>

\* a += b that takes any shape and adds nothing.
IaddUnchecked(a, b) == Ok(a)

\* a += b
iadd(a, b) ==
    IF BroadcastsInto(b.shape, a.shape)
    THEN Ok(Tensor(a.shape, [i \in Idx(a.shape) |-> RAdd(At(a, i), At(b, BIdx(i, b.shape)))]))
    ELSE Raise("RuntimeError")

\* for b in biases: a += b
RECURSIVE AddBiases(_, _)
AddBiases(a, biases) ==
    IF biases = <<>> THEN Ok(a)
    ELSE LET r == iadd(a, Head(biases))
         IN  IF r.err # "none" THEN r ELSE AddBiases(r.t, Tail(biases))

\* t[..., s:e] along axis dim (0-based start, exclusive end, clamped).
SliceDim(t, dim, s, e) ==
    LET lo == Min(s, t.shape[dim])
        hi == Max(lo, Min(e, t.shape[dim]))
    IN  Tensor(SetAt(t.shape, dim, hi - lo),
               [i \in Idx(SetAt(t.shape, dim, hi - lo)) |-> At(t, SetAt(i, dim, i[dim] + lo))])

\* range(0, count, step)
Range(count, step) ==
    Eager([n \in 1..((count + step - 1) \div step) |-> (n - 1) * step])

\* Row-wise maximum and sum over the last axis, keepdim.
RowMax(a) ==
    Tensor(SetAt(a.shape, 4, 1),
           [i \in Idx(SetAt(a.shape, 4, 1)) |-> RMaxTo([n \in 1..a.shape[4] |-> At(a, SetAt(i, 4, n))],
                             a.shape[4])])

RowSum(a) ==
    Tensor(SetAt(a.shape, 4, 1),
           [i \in Idx(SetAt(a.shape, 4, 1)) |-> RSumTo([n \in 1..a.shape[4] |-> At(a, SetAt(i, 4, n))],
                             a.shape[4])])

\* exp(a - m), m of the shape of RowMax(a).
ExpShifted(a, m) ==
    Tensor(a.shape, [i \in Idx(a.shape) |-> Exp(RSub(At(a, i), At(m, SetAt(i, 4, 1))))])

\* softmax over the last axis: exp(a - rowmax) / rowsum.
softmax_no_cast(t) ==
    IF t.shape[4] = 0 THEN t
    ELSE LET e == ExpShifted(t, RowMax(t))
             z == RowSum(e)
         IN  Tensor(t.shape, [i \in Idx(t.shape) |-> RDiv(At(e, i), At(z, SetAt(i, 4, 1)))])

(***************************************************************************)
(* _attention                                                              *)
(***************************************************************************)
_attention(query, key, value, biases) ==
    LET keyT == permute_final_dims(key)
        a == AddBiases(matmul(query, keyT), biases)
    IN  IF a.err # "none" THEN a
        ELSE Ok(matmul(softmax_no_cast(a.t), value))

(***************************************************************************)
(* _lma                                                                    *)
(***************************************************************************)
\* One key/value chunk of one query chunk: the chunk's logits, their
\* row maximum, the weights exp(a - max_a) and the weighted values.
LmaKvStep(q_chunk, k, v, large_bias_chunks, kv_s, kv_chunk_size) ==
    LET k_chunk == SliceDim(k, 3, kv_s, kv_s + kv_chunk_size)
        v_chunk == SliceDim(v, 3, kv_s, kv_s + kv_chunk_size)
        small_bias_chunks ==
            Eager([n \in 1..Len(large_bias_chunks) |->
                SliceDim(large_bias_chunks[n], 4, kv_s, kv_s + kv_chunk_size)])
        a == AddBiases(matmul(q_chunk, permute_final_dims(k_chunk)),
                       small_bias_chunks)
    IN  IF a.err # "none"
        THEN [err |-> a.err, max |-> NoTensor, weight |-> NoTensor,
              value |-> NoTensor]
        ELSE LET max_a == RowMax(a.t)
                 exp_a == ExpShifted(a.t, max_a)
             IN  [err |-> "none", max |-> max_a, weight |-> RowSum(exp_a),
                  value |-> matmul(exp_a, v_chunk)]

\* LmaMerge without the re-scaling by exp(chunk_max - global_max).
LmaMergeUnscaled(steps) ==
    LET n == Len(steps)
        vshape == steps[1].value.shape
        all_values ==
            Tensor(vshape,
                   [i \in Idx(vshape) |-> RSumTo([c \in 1..n |-> At(steps[c].value, i)], n)])
        all_weights ==
            Tensor(steps[1].weight.shape,
                   [i \in Idx(steps[1].weight.shape) |-> RSumTo([c \in 1..n |-> At(steps[c].weight, i)], n)])
    IN  Tensor(vshape,
               [i \in Idx(vshape) |-> RDiv(At(all_values, i),
                               At(all_weights, SetAt(i, 4, 1)))])

\* The merge of a query chunk's key/value chunks: every chunk re-scaled by
\* exp(chunk_max - global_max), summed, and the values divided by the weights.
LmaMerge(steps) ==
    LET n == Len(steps)
        vshape == steps[1].value.shape
        global_max ==
            Tensor(steps[1].max.shape,
                   [i \in Idx(steps[1].max.shape) |-> RMaxTo([c \in 1..n |-> At(steps[c].max, i)], n)])
        max_diffs ==
            Eager([c \in 1..n |-> ExpShifted(steps[c].max, global_max)])
        all_values ==
            Tensor(vshape,
                   [i \in Idx(vshape) |-> RSumTo([c \in 1..n |->
                       RMul(At(steps[c].value, i),
                            At(max_diffs[c], SetAt(i, 4, 1)))], n)])
        all_weights ==
            Tensor(steps[1].weight.shape,
                   [i \in Idx(steps[1].weight.shape) |-> RSumTo([c \in 1..n |->
                       RMul(At(steps[c].weight, i), At(max_diffs[c], i))], n)])
    IN  Tensor(vshape,
               [i \in Idx(vshape) |-> RDiv(At(all_values, i),
                               At(all_weights, SetAt(i, 4, 1)))])

\* The body of the query loop for the chunk starting at q_s.
LmaQChunk(q, k, v, biases, q_s, q_chunk_size, kv_chunk_size) ==
    LET q_chunk == SliceDim(q, 3, q_s, q_s + q_chunk_size)
        large_bias_chunks ==
            Eager([n \in 1..Len(biases) |->
                SliceDim(biases[n], 3, q_s, q_s + q_chunk_size)])
        starts == Range(k.shape[3], kv_chunk_size)
        steps == Eager([c \in 1..Len(starts) |->
                    LmaKvStep(q_chunk, k, v, large_bias_chunks, starts[c],
                              kv_chunk_size)])
    IN  IF \E c \in 1..Len(starts) : steps[c].err # "none"
        THEN Raise("RuntimeError")
        ELSE Ok(LmaMerge(steps))

\* o[..., q_s : q_s + q_chunk_size, :] = q_chunk_out
SetRows(o, q_s, q_chunk_size, q_chunk_out) ==
    Tensor(o.shape,
           [i \in Idx(o.shape) |-> IF q_s < i[3] /\ i[3] <= q_s + q_chunk_size
                      THEN At(q_chunk_out, SetAt(i, 3, i[3] - q_s))
                      ELSE At(o, i)])

\* The query loop from the n-th chunk start on, o being the output so far.
RECURSIVE LmaLoop(_, _, _, _, _, _, _, _)
LmaLoop(q, k, v, biases, q_chunk_size, kv_chunk_size, n, o) ==
    LET starts == Range(q.shape[3], q_chunk_size)
    IN  IF n > Len(starts) THEN Ok(o)
        ELSE LET c == LmaQChunk(q, k, v, biases, starts[n], q_chunk_size,
                                kv_chunk_size)
             IN  IF c.err # "none" THEN c
                 ELSE LmaLoop(q, k, v, biases, q_chunk_size, kv_chunk_size,
                              n + 1,
                              SetRows(o, starts[n], q_chunk_size, c.t))

_lma(q, k, v, biases, q_chunk_size, kv_chunk_size) ==
    LmaLoop(q, k, v, biases, q_chunk_size, kv_chunk_size, 1,
            Tensor(q.shape, [i \in Idx(q.shape) |-> RZero]))

(***************************************************************************)
(* _attention_chunked_trainable                                            *)
(***************************************************************************)
\* None, among the bias arguments of the checkpointed call.
None == NoTensor

\* _checkpointable_attention with b2 left out.
CheckpointableAttentionDropsB2(q, k, v, b1, b2) ==
    _attention(q, k, v, SelectSeq(<<b1>>, LAMBDA b : b # None))

_checkpointable_attention(q, k, v, b1, b2) ==
    _attention(q, k, v, SelectSeq(<<b1, b2>>, LAMBDA b : b # None))

\* checkpoint_fn(_checkpointable_attention, q, k, v, b1, b2): the forward pass
\* calls the function on the arguments.
checkpoint_fn(q, k, v, b1, b2) == _checkpointable_attention(q, k, v, b1, b2)

\* _slice_bias: the chunk of b, or all of b where its size on the axis is 1.
_slice_bias(b, chunk_dim, start, end) ==
    IF b.shape[chunk_dim] # 1 THEN SliceDim(b, chunk_dim, start, end) ELSE b

\* The sizes along dim of the first n chunks, added up.
RECURSIVE SizeBefore(_, _, _)
SizeBefore(chunks, dim, n) ==
    IF n = 0 THEN 0 ELSE chunks[n].shape[dim] + SizeBefore(chunks, dim, n - 1)

\* The chunk that index x (along the concatenated axis) falls in.
ChunkOf(chunks, dim, x) ==
    CHOOSE c \in 1..Len(chunks) :
        SizeBefore(chunks, dim, c - 1) < x /\ x <= SizeBefore(chunks, dim, c)

\* torch.cat(chunks, dim)
torch_cat(chunks, dim) ==
    IF \E c \in 1..Len(chunks) : \E d \in (1..4) \ {dim} :
            chunks[c].shape[d] # chunks[1].shape[d]
    THEN Raise("RuntimeError")
    ELSE Ok(Tensor(SetAt(chunks[1].shape, dim, SizeBefore(chunks, dim, Len(chunks))),
                   [i \in Idx(SetAt(chunks[1].shape, dim, SizeBefore(chunks, dim, Len(chunks)))) |->
                       LET c == ChunkOf(chunks, dim, i[dim])
                       IN  At(chunks[c], SetAt(i, dim,
                               i[dim] - SizeBefore(chunks, dim, c - 1)))]))

\* The chunk's result left in the layout _attention returns it in.
ChunkNotTransposed(o_chunk) == o_chunk

\* o_chunk.transpose(-2, -3), where the chunk's attention returned a tensor.
TransposeChunk(o_chunk) ==
    IF o_chunk.err # "none" THEN o_chunk ELSE Ok(transpose23(o_chunk.t))

\* The body of the loop for the chunk [start, end): the chunk's attention,
\* its head and query axes swapped.
ChunkOut(query, key, value, biases, chunk_dim, checkpoint, start, end) ==
    LET q_chunk == SliceDim(query, chunk_dim, start, end)
        k_chunk == SliceDim(key, chunk_dim, start, end)
        v_chunk == SliceDim(value, chunk_dim, start, end)
        padded == SubSeq(biases \o <<None, None>>, 1, 2)
        bias_1_chunk == IF padded[1] # None
                        THEN _slice_bias(padded[1], chunk_dim, start, end)
                        ELSE None
        bias_2_chunk == IF padded[2] # None
                        THEN _slice_bias(padded[2], chunk_dim, start, end)
                        ELSE None
        bias_chunks == Eager([n \in 1..Len(biases) |->
                                _slice_bias(biases[n], chunk_dim, start, end)])
    IN  TransposeChunk(
            IF checkpoint
            THEN checkpoint_fn(q_chunk, k_chunk, v_chunk,
                               bias_1_chunk, bias_2_chunk)
            ELSE _attention(q_chunk, k_chunk, v_chunk, bias_chunks))

\* What comes of the chunks' results: the loop stops at the first chunk that
\* raises; otherwise the outputs are concatenated along chunk_dim.  work
\* counts the calls of _attention made.
CatChunks(outs, chunk_dim) ==
    LET failed == {n \in 1..Len(outs) : outs[n].err # "none"}
        ran == IF failed = {} THEN Len(outs)
               ELSE CHOOSE n \in failed : \A m \in failed : n <= m
    IN  [work |-> [n \in 1..ran |-> "_attention"],
         ret |-> IF failed # {} THEN outs[ran]
                 ELSE torch_cat(Eager([n \in 1..Len(outs) |-> outs[n].t]),
                                chunk_dim)]

\* The loop over the chunks.
ChunkedLoop(query, key, value, biases, chunk_size, chunk_dim, checkpoint) ==
    LET starts == Range(query.shape[chunk_dim], chunk_size)
    IN  CatChunks(Eager([n \in 1..Len(starts) |->
                      ChunkOut(query, key, value, biases, chunk_dim,
                               checkpoint, starts[n], starts[n] + chunk_size)]),
                  chunk_dim)

\* The result of the call, and the calls of _attention made on its way.
ChunkedRun(query, key, value, biases, chunk_size, chunk_dim, checkpoint) ==
    IF checkpoint /\ Len(biases) > 2
    THEN [work |-> <<>>, ret |-> Raise("ValueError")]
    ELSE ChunkedLoop(query, key, value, biases, chunk_size, chunk_dim,
                     checkpoint)

_attention_chunked_trainable(query, key, value, biases, chunk_size, chunk_dim, checkpoint) ==
    ChunkedRun(query, key, value, biases, chunk_size, chunk_dim, checkpoint).ret

(***************************************************************************)
(* Inputs.                                                                 *)
(***************************************************************************)
Vals == {0, 1}

\* A [1, 1, n, 1] tensor holding the integers f[1..n].
Column(f, n) == Tensor(<<1, 1, n, 1>>, [i \in Idx(<<1, 1, n, 1>>) |-> R(f[i[3]])])

\* A [1, 1, 1, n] tensor holding the integers f[1..n].
Row(f, n) == Tensor(<<1, 1, 1, n>>, [i \in Idx(<<1, 1, 1, n>>) |-> R(f[i[4]])])

\* b.expand(b.shape[:-2] + (Q, K))
expand(b, Q, K) ==
    IF (b.shape[3] = Q \/ b.shape[3] = 1) /\ (b.shape[4] = K \/ b.shape[4] = 1)
    THEN Ok(Tensor(<<b.shape[1], b.shape[2], Q, K>>,
                   [i \in Idx(<<b.shape[1], b.shape[2], Q, K>>) |-> At(b, BIdx(i, b.shape))]))
    ELSE Raise("RuntimeError")

NoCall == [fn |-> "none"]

NoResult == [err |-> "none", t |-> NoTensor]

NoLocals == [q |-> NoTensor, k |-> NoTensor, v |-> NoTensor, o |-> NoTensor]

NoModule == [class |-> "none"]

\* The call ends: its result, and the log of the steps it took.
Returns(run) ==
    /\ ret' = run.ret
    /\ work' = run.work

(***************************************************************************)
(* _lma and _attention called on the same inputs.                          *)
(***************************************************************************)
\* Bias lists already expanded to [1, 1, Q, K]: none, a key mask, or a key
\* mask and a per-query bias.
ExpandedBiases(Q, K) ==
    {<<>>}
    \cup {<<expand(Row(m, K), Q, K).t>> : m \in [1..K -> {0, -1}]}
    \cup {<<expand(Row([n \in 1..K |-> -(n % 2)], K), Q, K).t,
             expand(Column([n \in 1..Q |-> n % 2], Q), Q, K).t>>}

\* Queries and keys take every value of Vals; the j-th value is j, so that
\* every key's weight shows in the output.
InitLma ==
    /\ ds4s_is_installed = FALSE
    /\ self = NoModule
    /\ \E Q \in 1..MaxLen, K \in 1..MaxLen :
         \E qf \in [1..Q -> Vals], kf \in [1..K -> Vals],
            bs \in ExpandedBiases(Q, K) :
            args = [q |-> Column(qf, Q),
                    k |-> Column(kf, K),
                    v |-> Column([n \in 1..K |-> n], K), biases |-> bs,
                    q_chunk_size |-> 0, kv_chunk_size |-> 0]
    /\ pc = "idle"
    /\ locals = NoLocals
    /\ work = <<>>
    /\ ret = NoResult

Call_lma ==
    /\ pc = "idle"
    /\ \E qcs \in 1..(MaxLen + 1), kcs \in 1..(MaxLen + 1) :
         /\ args' = [args EXCEPT !.q_chunk_size = qcs, !.kv_chunk_size = kcs]
         /\ ret' = _lma(args.q, args.k, args.v, args.biases, qcs, kcs)
    /\ pc' = "_lma"
    /\ UNCHANGED <<ds4s_is_installed, self, locals, work>>

Call_attention ==
    /\ pc = "idle"
    /\ ret' = _attention(args.q, args.k, args.v, args.biases)
    /\ pc' = "_attention"
    /\ UNCHANGED <<ds4s_is_installed, self, args, locals, work>>

ReturnLma ==
    /\ pc \in {"_lma", "_attention"}
    /\ pc' = "idle"
    /\ args' = [args EXCEPT !.q_chunk_size = 0, !.kv_chunk_size = 0]
    /\ ret' = NoResult
    /\ UNCHANGED <<ds4s_is_installed, self, locals, work>>

NextLma == Call_lma \/ Call_attention \/ ReturnLma

SpecLma == InitLma /\ [][NextLma]_vars

BatchKeyMask(B, K) == Tensor(<<B, 1, 1, K>>, [i \in Idx(<<B, 1, 1, K>>) |-> R(-((i[1] + i[4]) % 2))])

KeyMask(K) == Tensor(<<1, 1, 1, K>>, [i \in Idx(<<1, 1, 1, K>>) |-> R(-(i[4] % 2))])

PairBias(B, Q, K) ==
    Tensor(<<B, 1, Q, K>>, [i \in Idx(<<B, 1, Q, K>>) |-> <<(i[1] + i[3] + i[4]) % 2, 4>>])

QueryBias(Q) == Tensor(<<1, 1, Q, 1>>, [i \in Idx(<<1, 1, Q, 1>>) |-> <<-(i[3] % 2), 2>>])

BiasLists(B, Q, K) ==
    { <<>>, <<BatchKeyMask(B, K)>>, <<KeyMask(K)>>,
      <<PairBias(B, Q, K), KeyMask(K)>>,
      <<BatchKeyMask(B, K), QueryBias(Q)>>,
      <<PairBias(B, Q, K), KeyMask(K), QueryBias(Q)>> }

HeadCounts == {1, 2}

InitChunked ==
    /\ ds4s_is_installed = FALSE
    /\ self = NoModule
    /\ \E B \in 1..MaxBatch, H \in HeadCounts, Q \in 1..MaxLen, K \in 1..MaxLen :
         \E bs \in BiasLists(B, Q, K) :
            args = [query |-> Tensor(<<B, H, Q, 1>>,
                                     [i \in Idx(<<B, H, Q, 1>>) |-> R((i[1] + i[2] + i[3]) % 2)]),
                    key |-> Tensor(<<B, H, K, 1>>,
                                   [i \in Idx(<<B, H, K, 1>>) |-> R((i[1] * i[3] + i[2]) % 2)]),
                    value |-> Tensor(<<B, H, K, 1>>,
                                     [i \in Idx(<<B, H, K, 1>>) |-> R(i[3] + K * (i[1] - 1) + i[2])]),
                    biases |-> bs, chunk_size |-> 0, chunk_dim |-> 0,
                    checkpoint |-> FALSE]
    /\ pc = "idle"
    /\ locals = NoLocals
    /\ work = <<>>
    /\ ret = NoResult

\* chunk_dim counts the axes from 1: 1 batch, 2 heads, 3 queries, 4 channels.
Call_attention_chunked_trainable ==
    /\ pc = "idle"
    /\ \E chunk_size \in 1..(MaxLen + 1), chunk_dim \in 1..4,
          checkpoint \in BOOLEAN :
         /\ args' = [args EXCEPT !.chunk_size = chunk_size,
                                 !.chunk_dim = chunk_dim,
                                 !.checkpoint = checkpoint]
         /\ Returns(ChunkedRun(args.query, args.key, args.value,
                               args.biases, chunk_size, chunk_dim, checkpoint))
    /\ pc' = "_attention_chunked_trainable"
    /\ UNCHANGED <<ds4s_is_installed, self, locals>>

ReturnChunked ==
    /\ pc = "_attention_chunked_trainable"
    /\ pc' = "idle"
    /\ args' = [args EXCEPT !.chunk_size = 0, !.chunk_dim = 0,
                            !.checkpoint = FALSE]
    /\ ret' = NoResult
    /\ work' = <<>>
    /\ UNCHANGED <<ds4s_is_installed, self, locals>>

NextChunked == Call_attention_chunked_trainable \/ ReturnChunked

SpecChunked == InitChunked /\ [][NextChunked]_vars

\* The call made is on the batch axis, and not one that the bias count stops.
BatchChunked ==
    /\ pc = "_attention_chunked_trainable"
    /\ args.chunk_dim = 1
    /\ ~(args.checkpoint /\ Len(args.biases) > 2)

\* C2 (amended): chunked along the batch axis, with any chunk size,
\* _attention_chunked_trainable returns the output of _attention on the
\* unchunked inputs with its head and query axes swapped.
C2_BatchChunkedIsTransposedAttention ==
    BatchChunked =>
        LET a == _attention(args.query, args.key, args.value, args.biases)
        IN  ret = Ok(transpose23(a.t))

\* C2 as stated: on every chunk axis and for every chunk size the output is
\* the output of _attention on the unchunked inputs (in either layout of the
\* head and query axes).
C2_AsStated ==
    (pc = "_attention_chunked_trainable"
        /\ ~(args.checkpoint /\ Len(args.biases) > 2)) =>
        LET a == _attention(args.query, args.key, args.value, args.biases)
        IN  ret \in {a, Ok(transpose23(a.t))}

C2_Witness ==
    /\ BatchChunked
    /\ args.chunk_size < args.query.shape[1]
    /\ args.query.shape[2] > 1 /\ args.query.shape[3] > 1
    /\ Len(args.biases) > 0
    /\ ret.err = "none"
    /\ ret.t.shape = <<args.query.shape[1], args.query.shape[3],
                       args.query.shape[2], 1>>
    /\ \E i \in Idx(ret.t.shape) : At(ret.t, i)[2] > 1

\* C6: with checkpoint set, more than two biases raise ValueError before any
\* chunk is computed; with at most two, every chunk has every bias applied,
\* as in the call without checkpoint.
C6_CheckpointBiasLimit ==
    (pc = "_attention_chunked_trainable" /\ args.checkpoint) =>
        IF Len(args.biases) > 2
        THEN ret = Raise("ValueError") /\ work = <<>>
        ELSE ret = _attention_chunked_trainable(args.query, args.key,
                       args.value, args.biases, args.chunk_size,
                       args.chunk_dim, FALSE)

C6_Witness ==
    /\ pc = "_attention_chunked_trainable"
    /\ args.checkpoint
    /\ Len(args.biases) = 2
    /\ Len(work) > 1
    /\ ret.err = "none"
    /\ ret # _attention_chunked_trainable(args.query, args.key, args.value,
                  SubSeq(args.biases, 1, 1), args.chunk_size, args.chunk_dim,
                  TRUE)

(***************************************************************************)
(* Linear and the parameters of Attention                                  *)
(***************************************************************************)
DEFAULT_LMA_Q_CHUNK_SIZE == 1024

DEFAULT_LMA_KV_CHUNK_SIZE == 4096

\* glorot_uniform_init_ draws the weight at random; the draws used here are
\* "flat" (every entry 1/2), "ones" (every entry 1) and "rows" (entry o in
\* row o).
glorot_uniform_init_(out_dim, in_dim, draw) ==
    Tensor(<<1, 1, out_dim, in_dim>>,
           [i \in Idx(<<1, 1, out_dim, in_dim>>) |->
               CASE draw = "flat" -> <<1, 2>>
                 [] draw = "ones" -> R(1)
                 [] draw = "rows" -> R(i[3])])

\* lecun_normal_init_ draws the weight at random; the draws are those of
\* glorot_uniform_init_.
lecun_normal_init_(out_dim, in_dim, draw) ==
    glorot_uniform_init_(out_dim, in_dim, draw)

\* An initializer that fills the weights with ones.
FillOnes(out_dim, in_dim) ==
    Tensor(<<1, 1, out_dim, in_dim>>,
           [i \in Idx(<<1, 1, out_dim, in_dim>>) |-> R(1)])

\* weights.fill_(0.0) of final_init_ and gating_init_
final_init_(out_dim, in_dim) ==
    Tensor(<<1, 1, out_dim, in_dim>>,
           [i \in Idx(<<1, 1, out_dim, in_dim>>) |-> RZero])

\* self.bias.fill_(x)
BiasFilled(out_dim, x) ==
    Tensor(<<1, 1, 1, out_dim>>, [i \in Idx(<<1, 1, 1, out_dim>>) |-> x])

\* Linear.__init__: the weight [out_dim, in_dim] and the bias [out_dim] of the
\* initializer named.
Linear(in_dim, out_dim, bias, init, draw) ==
    [weight |-> CASE init = "glorot" -> glorot_uniform_init_(out_dim, in_dim, draw)
                  [] init = "default" -> lecun_normal_init_(out_dim, in_dim, draw)
                  [] init = "gating" -> final_init_(out_dim, in_dim)
                  [] init = "final" -> final_init_(out_dim, in_dim),
     bias |-> IF ~bias THEN None
              ELSE IF init = "gating" THEN BiasFilled(out_dim, R(1))
              ELSE BiasFilled(out_dim, RZero)]

\* Linear.forward: input @ weight^T + bias on the last axis.
LinearForward(layer, input) ==
    Tensor(SetAt(input.shape, 4, layer.weight.shape[3]),
           [i \in Idx(SetAt(input.shape, 4, layer.weight.shape[3])) |->
               RAdd(RSumTo([n \in 1..input.shape[4] |->
                               RMul(At(input, SetAt(i, 4, n)),
                                    At(layer.weight, <<1, 1, i[4], n>>))],
                           input.shape[4]),
                    IF layer.bias = None THEN RZero
                    ELSE At(layer.bias, <<1, 1, 1, i[4]>>))])

\* Attention.__init__ with c_q = c_k = c_v = 1.
Attention(c_hidden, no_heads, gating) ==
    [class |-> "Attention", c_hidden |-> c_hidden, no_heads |-> no_heads,
     linear_q |-> Linear(1, c_hidden * no_heads, FALSE, "glorot", "flat"),
     linear_k |-> Linear(1, c_hidden * no_heads, FALSE, "glorot", "flat"),
     linear_v |-> Linear(1, c_hidden * no_heads, FALSE, "glorot", "rows"),
     linear_o |-> Linear(c_hidden * no_heads, 1, TRUE, "final", "none"),
     linear_g |-> IF gating
                  THEN Linear(1, c_hidden * no_heads, TRUE, "gating", "none")
                  ELSE [weight |-> None, bias |-> None]]

(***************************************************************************)
(* Attention._prep_qkv, Attention._wrap_up, _deepspeed_evo_attn            *)
(***************************************************************************)
\* x.view(x.shape[:-1] + (no_heads, -1)): [1, 1, N, H * C] seen as [1, N, H, C].
ViewHeads(x, no_heads) ==
    Tensor(<<1, x.shape[3], no_heads, x.shape[4] \div no_heads>>,
           [i \in Idx(<<1, x.shape[3], no_heads, x.shape[4] \div no_heads>>) |->
               At(x, <<1, 1, i[2],
                       (i[3] - 1) * (x.shape[4] \div no_heads) + i[4]>>)])

\* flatten_final_dims(o, 2): [1, Q, H, C] seen as [1, 1, Q, H * C].
flatten_final_dims(o) ==
    Tensor(<<1, 1, o.shape[2], o.shape[3] * o.shape[4]>>,
           [i \in Idx(<<1, 1, o.shape[2], o.shape[3] * o.shape[4]>>) |->
               At(o, <<1, i[3], ((i[4] - 1) \div o.shape[4]) + 1,
                       ((i[4] - 1) % o.shape[4]) + 1>>)])

\* math.sqrt on the perfect squares the head sizes are drawn from.
sqrt(n) == CHOOSE r \in 0..n : r * r = n

\* q with every entry divided by sqrt(c_hidden).
Scaled(q, c_hidden) ==
    Tensor(q.shape, [i \in Idx(q.shape) |-> RDiv(At(q, i), R(sqrt(c_hidden)))])

\* The scaling applied whether or not apply_scale is set.
ScaleAlways(q, c_hidden, apply_scale) == Scaled(q, c_hidden)

\* if apply_scale: q /= math.sqrt(self.c_hidden)
ScaleIf(q, c_hidden, apply_scale) ==
    IF apply_scale THEN Scaled(q, c_hidden) ELSE q

\* A projection of _prep_qkv: the linear layer, the view by heads and the
\* transpose to [1, H, N, C].
Project(layer, x, no_heads) ==
    transpose23(ViewHeads(LinearForward(layer, x), no_heads))

_prep_qkv(module, q_x, kv_x, apply_scale) ==
    [q |-> ScaleIf(Project(module.linear_q, q_x, module.no_heads),
                   module.c_hidden, apply_scale),
     k |-> Project(module.linear_k, kv_x, module.no_heads),
     v |-> Project(module.linear_v, kv_x, module.no_heads)]

\* nn.Sigmoid on one number.
sigmoid(x) == RDiv(R(1), RAdd(R(1), Exp(RNeg(x))))

\* o * sigmoid(g)
TimesSigmoid(o, g) ==
    Tensor(o.shape, [i \in Idx(o.shape) |-> RMul(At(o, i), sigmoid(At(g, i)))])

\* o * g, with g = sigmoid(linear_g(q_x)) viewed by heads.
Gated(module, o, q_x) ==
    IF module.linear_g.weight = None THEN o
    ELSE TimesSigmoid(o, ViewHeads(LinearForward(module.linear_g, q_x),
                                   module.no_heads))

_wrap_up(module, o, q_x) ==
    LinearForward(module.linear_o, flatten_final_dims(Gated(module, o, q_x)))

\* o.transpose(-2, -3) on the result of a primitive, where it returned.
Transposed(o) == IF o.err # "none" THEN o ELSE Ok(transpose23(o.t))

\* DS4Sci_EvoformerAttention on [1, Q, H, C] inputs: softmax attention that
\* scales the logits by 1/sqrt(C) itself and returns [1, Q, H, C].
DS4Sci_EvoformerAttention(q, k, v, biases) ==
    Transposed(_attention(Scaled(transpose23(q), q.shape[4]),
                              transpose23(k), transpose23(v), biases))

_deepspeed_evo_attn(q, k, v, biases) ==
    IF ~ds4s_is_installed THEN Raise("ValueError")
    ELSE DS4Sci_EvoformerAttention(transpose23(q), transpose23(k),
                                   transpose23(v), biases)

(***************************************************************************)
(* Attention.forward, step by step                                         *)
(***************************************************************************)
\* Size of a module's head dimension and its number of heads.
HeadSizes == {1, 4}

\* How the caller passes a chunk size.
HowPassed == {"omitted", "None", "given"}

\* The value the parameter is bound to: its default where omitted.
Bound(how, default, n) ==
    CASE how = "omitted" -> <<default>>
      [] how = "None" -> <<>>
      [] how = "given" -> <<n>>

\* Bias values small enough to keep every logit within one unit.
MaskBias(K) ==
    Tensor(<<1, 1, 1, K>>, [i \in Idx(<<1, 1, 1, K>>) |-> <<-(i[4] % 2), 4>>])

\* A bias of zeros of the shape given.
ZeroBias(shape) == Tensor(shape, [i \in Idx(shape) |-> RZero])

\* Bias lists for Q queries and K keys: none to three biases that broadcast,
\* and lists with a bias whose query or key size fits neither Q or K nor 1.
ForwardBiases(Q, K) ==
    { <<>>, <<MaskBias(K)>>, <<PairBias(1, Q, K), MaskBias(K)>>,
      <<MaskBias(K), PairBias(1, Q, K), QueryBias(Q)>>,
      <<ZeroBias(<<1, 1, Q + 1, K>>)>>,
      <<MaskBias(K), ZeroBias(<<1, 1, 1, K + 1>>)>> }

\* The dispatch with its elif use_lma branch left out.
BranchIgnoresLma(a) ==
    IF a.use_deepspeed_evo_attention THEN "_deepspeed_evo_attn"
    ELSE "_attention"

\* The branch of the if / elif / else at lines 654-670, by the primitive it
\* calls.
Branch(a) ==
    IF a.use_deepspeed_evo_attention THEN "_deepspeed_evo_attn"
    ELSE IF a.use_lma THEN "_lma"
    ELSE "_attention"

InitAttention ==
    /\ ds4s_is_installed \in BOOLEAN
    /\ \E c_hidden \in HeadSizes, no_heads \in HeadCounts, gating \in BOOLEAN :
         self = Attention(c_hidden, no_heads, gating)
    /\ args = NoCall
    /\ pc = "idle"
    /\ locals = NoLocals
    /\ work = <<>>
    /\ ret = NoResult

\* The call self.forward(q_x, kv_x, biases, ...), up to line 635.
forward ==
    /\ pc = "idle"
    /\ \E Q \in 1..MaxLen, K \in 1..MaxLen :
       \E biases \in ForwardBiases(Q, K), ds \in BOOLEAN, lma \in BOOLEAN,
          how_q \in HowPassed, how_kv \in HowPassed :
         args' = [fn |-> "forward",
                  q_x |-> Tensor(<<1, 1, Q, 1>>,
                                 [i \in Idx(<<1, 1, Q, 1>>) |-> R(i[3] % 2)]),
                  kv_x |-> Tensor(<<1, 1, K, 1>>,
                                  [i \in Idx(<<1, 1, K, 1>>) |-> R(i[3] % 2)]),
                  biases |-> biases,
                  use_deepspeed_evo_attention |-> ds,
                  use_lma |-> lma,
                  how_q |-> how_q, how_kv |-> how_kv,
                  lma_q_chunk_size |-> Bound(how_q, DEFAULT_LMA_Q_CHUNK_SIZE, 1),
                  lma_kv_chunk_size |-> Bound(how_kv, DEFAULT_LMA_KV_CHUNK_SIZE, 1)]
    /\ pc' = "check_chunk_sizes"
    /\ UNCHANGED <<ds4s_is_installed, self, locals, work, ret>>

\* raise: the call ends with the error, no output.
Raises(e) ==
    /\ pc' = "raised"
    /\ ret' = Raise(e)

\* The test with "exactly one of the two is None" in place of "either".
OneChunkSizeMissing(a) ==
    a.use_lma /\ ((a.lma_q_chunk_size = <<>>) # (a.lma_kv_chunk_size = <<>>))

\* use_lma and (lma_q_chunk_size is None or lma_kv_chunk_size is None)
ChunkSizeMissing(a) ==
    a.use_lma /\ (a.lma_q_chunk_size = <<>> \/ a.lma_kv_chunk_size = <<>>)

\* Lines 635-639.
CheckChunkSizes ==
    /\ pc = "check_chunk_sizes"
    /\ IF ChunkSizeMissing(args)
       THEN Raises("ValueError")
       ELSE pc' = "check_attn_options" /\ ret' = ret
    /\ UNCHANGED <<ds4s_is_installed, self, args, locals, work>>

\* No check of the options: any number of flags passes.
AnyOptions(attn_options) == FALSE

\* sum(attn_options) > 1
TooManyOptions(attn_options) ==
    Cardinality({n \in 1..Len(attn_options) : attn_options[n]}) > 1

\* Lines 641-645.
CheckAttnOptions ==
    /\ pc = "check_attn_options"
    /\ IF TooManyOptions(<<args.use_deepspeed_evo_attention, args.use_lma>>)
       THEN Raises("ValueError")
       ELSE pc' = "_prep_qkv" /\ ret' = ret
    /\ UNCHANGED <<ds4s_is_installed, self, args, locals, work>>

\* Lines 651-652.
PrepQKV ==
    /\ pc = "_prep_qkv"
    /\ locals' = _prep_qkv(self, args.q_x, args.kv_x,
                           ~args.use_deepspeed_evo_attention)
                     @@ [o |-> NoTensor]
    /\ work' = Append(work, "_prep_qkv")
    /\ pc' = "dispatch"
    /\ UNCHANGED <<ds4s_is_installed, self, args, ret>>

\* A primitive was called and came back with o: the call goes on to _wrap_up
\* with its output, or ends with its error.
Called(primitive, o) ==
    /\ work' = Append(work, primitive)
    /\ IF o.err # "none"
       THEN /\ pc' = "raised"
            /\ ret' = o
            /\ locals' = locals
       ELSE /\ pc' = "_wrap_up"
            /\ ret' = ret
            /\ locals' = [locals EXCEPT !.o = o.t]

\* Lines 654-660.
DeepspeedBranch ==
    /\ pc = "dispatch"
    /\ Branch(args) = "_deepspeed_evo_attn"
    /\ IF Len(args.biases) > 2
       THEN Raises("ValueError") /\ UNCHANGED <<locals, work>>
       ELSE Called("_deepspeed_evo_attn",
                   _deepspeed_evo_attn(locals.q, locals.k, locals.v,
                                       args.biases))
    /\ UNCHANGED <<ds4s_is_installed, self, args>>

\* The biases of line 662, each expanded to (Q, K), or the first error.
Expanded(biases, Q, K) ==
    LET bad == {n \in 1..Len(biases) : expand(biases[n], Q, K).err # "none"}
    IN  [err |-> IF bad = {} THEN "none" ELSE "RuntimeError",
         biases |-> IF bad # {} THEN <<>>
                    ELSE Eager([n \in 1..Len(biases) |->
                                   expand(biases[n], Q, K).t])]

\* _lma on the expanded biases and the transpose of its output.
LmaOnExpanded(q, k, v, expanded, q_chunk_size, kv_chunk_size) ==
    IF expanded.err # "none" THEN Raise(expanded.err)
    ELSE Transposed(_lma(q, k, v, expanded.biases, q_chunk_size,
                         kv_chunk_size))

\* Lines 661-667.
LmaBranch ==
    /\ pc = "dispatch"
    /\ Branch(args) = "_lma"
    /\ IF Expanded(args.biases, args.q_x.shape[3], args.kv_x.shape[3]).err
            # "none"
       THEN Raises("RuntimeError") /\ UNCHANGED <<locals, work>>
       ELSE Called("_lma",
                   LmaOnExpanded(locals.q, locals.k, locals.v,
                       Expanded(args.biases, args.q_x.shape[3],
                                args.kv_x.shape[3]),
                       args.lma_q_chunk_size[1], args.lma_kv_chunk_size[1]))
    /\ UNCHANGED <<ds4s_is_installed, self, args>>

\* Lines 668-670.
DirectBranch ==
    /\ pc = "dispatch"
    /\ Branch(args) = "_attention"
    /\ Called("_attention",
              Transposed(_attention(locals.q, locals.k, locals.v, args.biases)))
    /\ UNCHANGED <<ds4s_is_installed, self, args>>

\* Lines 672-674.
WrapUp ==
    /\ pc = "_wrap_up"
    /\ ret' = Ok(_wrap_up(self, locals.o, args.q_x))
    /\ work' = Append(work, "_wrap_up")
    /\ pc' = "returned"
    /\ UNCHANGED <<ds4s_is_installed, self, args, locals>>

\* The caller takes the result or the error; the module is ready for the
\* next call.
ForwardDone ==
    /\ pc \in {"returned", "raised"}
    /\ pc' = "idle"
    /\ args' = NoCall
    /\ locals' = NoLocals
    /\ work' = <<>>
    /\ ret' = NoResult
    /\ UNCHANGED <<ds4s_is_installed, self>>

Next ==
    \/ forward
    \/ CheckChunkSizes
    \/ CheckAttnOptions
    \/ PrepQKV
    \/ DeepspeedBranch
    \/ LmaBranch
    \/ DirectBranch
    \/ WrapUp
    \/ ForwardDone

Spec == InitAttention /\ [][Next]_vars

\* The call has passed the dispatch at lines 654-670.
Dispatched == pc \in {"_wrap_up", "returned"} \/ (pc = "raised" /\ Len(work) > 0)

\* The call was stopped by one of the two checks at lines 635-645.
StoppedByCheck == pc = "raised" /\ work = <<>>

\* C3 as stated: a call of Attention.forward that ends with an error has run
\* no numeric step (no projection, scaling or attention) before it.
C3_AsStated == pc = "raised" => work = <<>>

\* C4: with use_deepspeed_evo_attention and use_lma both set, the call ends
\* at the checks with ValueError, whatever the inputs and chunk sizes, and
\* has no output.
C4_BothFlagsRaise ==
    (pc \notin {"idle", "check_chunk_sizes", "check_attn_options"}
        /\ args.use_deepspeed_evo_attention /\ args.use_lma) =>
        (StoppedByCheck /\ ret = Raise("ValueError"))

C4_Witness ==
    /\ StoppedByCheck
    /\ args.use_deepspeed_evo_attention /\ args.use_lma
    /\ args.how_q = "given" /\ args.how_kv = "given"
    /\ Len(args.biases) = 1
    /\ ret.err = "ValueError"

\* C5 (amended): with use_lma the call is stopped with ValueError exactly when
\* a chunk size is passed as None (one of them or both); an omitted chunk size
\* is bound to its default (1024, 4096) and stops nothing, so one size given
\* and the other omitted is no error.  Without use_lma no chunk size stops
\* the call.
C5_NoneChunkSizeRaises ==
    pc \notin {"idle", "check_chunk_sizes"} =>
        /\ args.how_q = "omitted" =>
               args.lma_q_chunk_size = <<DEFAULT_LMA_Q_CHUNK_SIZE>>
        /\ args.how_kv = "omitted" =>
               args.lma_kv_chunk_size = <<DEFAULT_LMA_KV_CHUNK_SIZE>>
        /\ (args.use_lma /\ "None" \in {args.how_q, args.how_kv}) =>
               (StoppedByCheck /\ ret = Raise("ValueError"))
        /\ ~(args.use_lma /\ "None" \in {args.how_q, args.how_kv}) =>
               (StoppedByCheck =>
                   (args.use_deepspeed_evo_attention /\ args.use_lma))

\* C5 as stated: with use_lma (alone) the call is stopped exactly when only
\* one of the two chunk sizes is given.
C5_AsStated ==
    (pc \notin {"idle", "check_chunk_sizes"}
        /\ args.use_lma /\ ~args.use_deepspeed_evo_attention) =>
        (StoppedByCheck <=> ((args.how_q = "given") # (args.how_kv = "given")))

C5_Witness ==
    /\ pc = "returned"
    /\ args.use_lma
    /\ args.how_q = "given" /\ args.how_kv = "omitted"
    /\ args.lma_kv_chunk_size = <<4096>>
    /\ work = <<"_prep_qkv", "_lma", "_wrap_up">>

\* C7 (amended): a call that returns has run exactly one attention primitive,
\* between _prep_qkv and _wrap_up: the fused one with
\* use_deepspeed_evo_attention, _lma with use_lma, _attention otherwise.
\* _attention_chunked_trainable is never run.
C7_OneStrategyOfThree ==
    /\ \A n \in 1..Len(work) : work[n] # "_attention_chunked_trainable"
    /\ pc = "returned" =>
           work = <<"_prep_qkv",
                    IF args.use_deepspeed_evo_attention
                    THEN "_deepspeed_evo_attn"
                    ELSE IF args.use_lma THEN "_lma" ELSE "_attention",
                    "_wrap_up">>

\* The four strategies of the claim, by their primitives.
FourStrategies ==
    {"_attention", "_attention_chunked_trainable", "_lma", "_deepspeed_evo_attn"}

\* C7 as stated: a call that returns has run exactly one of the four
\* primitives, and each of the four is the branch taken for some setting of
\* the flags.
C7_AsStated ==
    /\ pc = "returned" =>
           Cardinality({n \in 1..Len(work) : work[n] \in FourStrategies}) = 1
    /\ \A s \in FourStrategies :
           \E ds \in BOOLEAN, lma \in BOOLEAN :
               Branch([use_deepspeed_evo_attention |-> ds, use_lma |-> lma]) = s

C7_Witness ==
    /\ pc = "returned"
    /\ args.use_deepspeed_evo_attention
    /\ Len(args.biases) = 2
    /\ work = <<"_prep_qkv", "_deepspeed_evo_attn", "_wrap_up">>

\* C8: after _prep_qkv the query is the projection of q_x divided by
\* sqrt(c_hidden), once, unless use_deepspeed_evo_attention is set, when it is
\* the projection itself; keys and values are the projections of kv_x.
C8_QueryScaledOnce ==
    (pc = "dispatch" \/ Dispatched) =>
        /\ locals.q = IF args.use_deepspeed_evo_attention
                      THEN Project(self.linear_q, args.q_x, self.no_heads)
                      ELSE Scaled(Project(self.linear_q, args.q_x,
                                          self.no_heads), self.c_hidden)
        /\ locals.k = Project(self.linear_k, args.kv_x, self.no_heads)
        /\ locals.v = Project(self.linear_v, args.kv_x, self.no_heads)

C8_Witness ==
    /\ pc = "returned"
    /\ self.c_hidden = 4
    /\ ~args.use_deepspeed_evo_attention
    /\ \E i \in Idx(locals.q.shape) : At(locals.q, i) = <<1, 4>>
    /\ \E i \in Idx(locals.k.shape) : At(locals.k, i) = <<1, 2>>

\* Bias b has a query or key size that is neither that of the logits nor 1.
BadTrailing(b, Q, K) == b.shape[3] \notin {Q, 1} \/ b.shape[4] \notin {K, 1}

\* C9: under the direct and the low-memory strategy, the call ends with a
\* shape error (RuntimeError) exactly when some bias has a query or key size
\* that is neither the logits' size nor 1.
C9_BiasShapeError ==
    (Dispatched /\ ~args.use_deepspeed_evo_attention) =>
        ((\E n \in 1..Len(args.biases) :
              BadTrailing(args.biases[n], args.q_x.shape[3],
                          args.kv_x.shape[3]))
         <=> (pc = "raised" /\ ret = Raise("RuntimeError")))

C9_Witness ==
    /\ pc = "raised"
    /\ ~args.use_lma /\ ~args.use_deepspeed_evo_attention
    /\ work = <<"_prep_qkv", "_attention">>
    /\ ret.err = "RuntimeError"
    /\ Len(args.biases) = 2

(***************************************************************************)
(* GlobalAttention                                                         *)
(***************************************************************************)
\* GlobalAttention.__init__ with c_in = 1.  The glorot draws make every
\* logit a multiple of the pooled query.
GlobalAttention(c_hidden, no_heads, inf, eps) ==
    [class |-> "GlobalAttention", c_hidden |-> c_hidden, no_heads |-> no_heads,
     inf |-> inf, eps |-> eps,
     linear_q |-> Linear(1, c_hidden * no_heads, FALSE, "glorot", "ones"),
     linear_k |-> Linear(1, c_hidden, FALSE, "glorot",
                         IF c_hidden = 1 THEN "ones" ELSE "flat"),
     linear_v |-> Linear(1, c_hidden, FALSE, "glorot", "rows"),
     linear_g |-> Linear(1, c_hidden * no_heads, TRUE, "gating", "none"),
     linear_o |-> Linear(c_hidden * no_heads, 1, TRUE, "final", "none")]

\* torch.sum(mask, dim=-1)[..., None] + self.eps, of shape [1, 1, N_res, 1].
PoolDenominator(mask, eps) ==
    Tensor(<<1, 1, mask.shape[3], 1>>,
           [i \in Idx(<<1, 1, mask.shape[3], 1>>) |->
               RAdd(RSumTo([s \in 1..mask.shape[4] |->
                               At(mask, <<1, 1, i[3], s>>)], mask.shape[4]),
                    eps)])

\* torch.sum(m * mask.unsqueeze(-1), dim=-2), of shape [1, 1, N_res, C_in].
MaskedSum(m, mask) ==
    Tensor(<<1, 1, m.shape[2], m.shape[4]>>,
           [i \in Idx(<<1, 1, m.shape[2], m.shape[4]>>) |->
               RSumTo([s \in 1..m.shape[3] |->
                          RMul(At(m, <<1, i[3], s, i[4]>>),
                               At(mask, <<1, 1, i[3], s>>))],
                      m.shape[3])])

\* Pooling that leaves the sum undivided.
PoolUndivided(m, mask, eps) == MaskedSum(m, mask)

\* The quotient of a [1, 1, N_res, C_in] tensor by a [1, 1, N_res, 1] one.
DivRows(x, d) ==
    Tensor(x.shape, [i \in Idx(x.shape) |->
                        RDiv(At(x, i), At(d, <<1, 1, i[3], 1>>))])

\* Lines 708-710: the pooled query, of shape [1, 1, N_res, C_in], for m of
\* shape [1, N_res, N_seq, C_in] and mask of shape [1, 1, N_res, N_seq].
Pool(m, mask, eps) == DivRows(MaskedSum(m, mask), PoolDenominator(mask, eps))

\* Lines 713-717: the projected, scaled query, viewed as [1, N_res, H, C].
GlobalQ(module, m, mask) ==
    ViewHeads(Scaled(LinearForward(module.linear_q,
                                   Pool(m, mask, module.eps)),
                     module.c_hidden),
              module.no_heads)

\* (self.inf * (mask - 1))[..., :, None, :], of shape [1, N_res, 1, N_seq].
GlobalBias(inf, mask) ==
    Tensor(<<1, mask.shape[3], 1, mask.shape[4]>>,
           [i \in Idx(<<1, mask.shape[3], 1, mask.shape[4]>>) |->
               RMul(inf, RSub(At(mask, <<1, 1, i[2], i[4]>>), R(1)))])

\* softmax and the product with v, where a += bias went through.
SoftmaxTimesV(a, v) ==
    IF a.err # "none" THEN a ELSE Ok(matmul(softmax_no_cast(a.t), v))

\* Lines 726-737.
GlobalDirect(q, k, v, bias) ==
    SoftmaxTimesV(iadd(matmul(q, permute_final_dims(k)), bias), v)

\* Lines 720-746: o, by either strategy.
GlobalO(module, m, mask, use_lma) ==
    IF ~use_lma
    THEN GlobalDirect(GlobalQ(module, m, mask),
                      LinearForward(module.linear_k, m),
                      LinearForward(module.linear_v, m),
                      GlobalBias(module.inf, mask))
    ELSE _lma(GlobalQ(module, m, mask),
              LinearForward(module.linear_k, m),
              LinearForward(module.linear_v, m),
              <<GlobalBias(module.inf, mask)>>,
              DEFAULT_LMA_Q_CHUNK_SIZE, DEFAULT_LMA_KV_CHUNK_SIZE)

\* Lines 749-758: o.unsqueeze(-3) * g, reshaped to [1, N_res, N_seq, H * C].
GlobalGated(module, o, m) ==
    Tensor(<<1, m.shape[2], m.shape[3], o.shape[3] * o.shape[4]>>,
           [i \in Idx(<<1, m.shape[2], m.shape[3], o.shape[3] * o.shape[4]>>) |->
               RMul(At(o, <<1, i[2], ((i[4] - 1) \div o.shape[4]) + 1,
                            ((i[4] - 1) % o.shape[4]) + 1>>),
                    sigmoid(RAdd(RMul(At(m, <<1, i[2], i[3], 1>>),
                                      At(module.linear_g.weight, <<1, 1, i[4], 1>>)),
                                 At(module.linear_g.bias, <<1, 1, 1, i[4]>>))))])

\* Lines 748-763 on the o of either strategy, or its error.
GlobalFinish(module, m, o) ==
    [ret |-> IF o.err # "none" THEN o
             ELSE Ok(LinearForward(module.linear_o, GlobalGated(module, o.t, m))),
     o |-> o.t]

GlobalAttention_forward(module, m, mask, use_lma) ==
    GlobalFinish(module, m, GlobalO(module, m, mask, use_lma))

\* Head counts of GlobalAttention: few, and one more than a query chunk of
\* _lma holds.
GlobalHeadCounts == {1, 2, DEFAULT_LMA_Q_CHUNK_SIZE + 1}

\* Masks over N_res rows of N_seq positions: all true, all false, and true on
\* the odd positions of the odd rows.
Masks(N_res, N_seq) ==
    { Tensor(<<1, 1, N_res, N_seq>>,
             [i \in Idx(<<1, 1, N_res, N_seq>>) |-> R(1)]),
      Tensor(<<1, 1, N_res, N_seq>>,
             [i \in Idx(<<1, 1, N_res, N_seq>>) |-> R(0)]),
      Tensor(<<1, 1, N_res, N_seq>>,
             [i \in Idx(<<1, 1, N_res, N_seq>>) |-> R((i[3] * i[4]) % 2)]) }

\* inf = 1/2 and eps = 1: constructor arguments that keep the arithmetic
\* exact.  The module with more heads than a query chunk has one channel per
\* head.
InitGlobal ==
    /\ ds4s_is_installed = FALSE
    /\ \E c_hidden \in HeadSizes, no_heads \in GlobalHeadCounts :
         /\ no_heads > DEFAULT_LMA_Q_CHUNK_SIZE => c_hidden = 1
         /\ self = GlobalAttention(c_hidden, no_heads, <<1, 2>>, R(1))
    /\ args = NoCall
    /\ pc = "idle"
    /\ locals = NoLocals
    /\ work = <<>>
    /\ ret = NoResult

\* What the call leaves: its result, its q as pooled (line 708), its o, and
\* the strategy it ran.
GlobalReturns(run, pooled, use_lma) ==
    /\ ret' = run.ret
    /\ locals' = [NoLocals EXCEPT !.q = pooled, !.o = run.o]
    /\ work' = IF use_lma THEN <<"_lma">> ELSE <<"softmax_no_cast">>

\* self.forward(m, mask, use_lma)
GlobalForward ==
    /\ pc = "idle"
    /\ \E N_res \in 1..MaxBatch, N_seq \in 1..MaxLen, use_lma \in BOOLEAN :
       \E mask \in Masks(N_res, N_seq) :
         /\ args' = [fn |-> "forward",
                     m |-> Tensor(<<1, N_res, N_seq, 1>>,
                                  [i \in Idx(<<1, N_res, N_seq, 1>>) |->
                                      R((i[2] + i[3]) % 2)]),
                     mask |-> mask, use_lma |-> use_lma]
         /\ GlobalReturns(GlobalAttention_forward(self, args'.m, mask, use_lma),
                          Pool(args'.m, mask, self.eps), use_lma)
    /\ pc' = "GlobalAttention.forward"
    /\ UNCHANGED <<ds4s_is_installed, self>>

GlobalDone ==
    /\ pc = "GlobalAttention.forward"
    /\ pc' = "idle"
    /\ args' = NoCall
    /\ locals' = NoLocals
    /\ work' = <<>>
    /\ ret' = NoResult
    /\ UNCHANGED <<ds4s_is_installed, self>>

NextGlobal == GlobalForward \/ GlobalDone

SpecGlobal == InitGlobal /\ [][NextGlobal]_vars

\* C10 as stated: for every m, mask and head count the call with use_lma
\* completes, and its output (and its o) are those of the call without.
C10_AsStated ==
    (pc = "GlobalAttention.forward" /\ args.use_lma) =>
        /\ ret.err = "none"
        /\ [ret |-> ret, o |-> locals.o]
               = GlobalAttention_forward(self, args.m, args.mask, FALSE)

\* The mask is true at every position.
AllTrue(mask) == \A i \in Idx(mask.shape) : At(mask, i) = R(1)

\* sum over the N_seq rows of m, divided by n.
SumOver(m, n) ==
    Tensor(<<1, 1, m.shape[2], m.shape[4]>>,
           [i \in Idx(<<1, 1, m.shape[2], m.shape[4]>>) |->
               RDiv(RSumTo([s \in 1..m.shape[3] |-> At(m, <<1, i[3], s, i[4]>>)],
                           m.shape[3]),
                    n)])

\* C11, as the code has it: every pooling denominator sum(mask) + eps is
\* strictly positive, and under an all-true mask the pooled query is the sum
\* of the N_seq rows of m divided by N_seq + eps.
C11_PooledOverCountPlusEps ==
    pc = "GlobalAttention.forward" =>
        /\ \A i \in Idx(<<1, 1, args.mask.shape[3], 1>>) :
               RLess(RZero, At(PoolDenominator(args.mask, self.eps), i))
        /\ AllTrue(args.mask) =>
               locals.q = SumOver(args.m, RAdd(R(args.m.shape[3]), self.eps))

\* C11 as stated: under an all-true mask the pooled query is the unweighted
\* mean, the sum of the N_seq rows of m divided by N_seq.
C11_AsStated ==
    (pc = "GlobalAttention.forward" /\ AllTrue(args.mask)) =>
        locals.q = SumOver(args.m, R(args.m.shape[3]))

\* A call with an all-true mask over two rows of two positions, pooled to
\* 1/3 = 1 / (2 + eps).
C11_Witness ==
    /\ pc = "GlobalAttention.forward"
    /\ AllTrue(args.mask)
    /\ args.mask.shape = <<1, 1, 2, 2>>
    /\ \A i \in Idx(locals.q.shape) : At(locals.q, i) = <<1, 3>>

(***************************************************************************)
(* AdaLN and AttentionPairBias                                             *)
(***************************************************************************)
\* e^n for an integer n, with e to four digits.
RECURSIVE ExpInt(_)
ExpInt(n) ==
    IF n = 0 THEN R(1)
    ELSE IF n > 0 THEN RMul(<<1359, 500>>, ExpInt(n - 1))
    ELSE RMul(<<500, 1359>>, ExpInt(n + 1))

\* floor(x)
Floor(x) == x[1] \div x[2]

\* e^x: ExpInt at the integers, interpolated between them.
ExpE(x) ==
    IF x[2] = 1 THEN ExpInt(x[1])
    ELSE RAdd(ExpInt(Floor(x)),
              RMul(RSub(x, R(Floor(x))),
                   RSub(ExpInt(Floor(x) + 1), ExpInt(Floor(x)))))

\* F.sigmoid on one number.
F_sigmoid(x) == RDiv(R(1), RAdd(R(1), ExpE(RNeg(x))))

\* The mean of x over its last axis, keepdim.
MeanOf(sum, n) ==
    Tensor(sum.shape, [i \in Idx(sum.shape) |-> RDiv(At(sum, i), R(n))])

RowMean(x) == MeanOf(RowSum(x), x.shape[4])

\* nn.LayerNorm without affine weights over a last axis of one or two
\* channels, its eps neglected: a centred entry is 0 or of magnitude 1.
Normalised(x, mean) ==
    Tensor(x.shape,
           [i \in Idx(x.shape) |->
               IF At(x, i) = At(mean, SetAt(i, 4, 1)) THEN RZero
               ELSE IF RLess(At(x, i), At(mean, SetAt(i, 4, 1)))
               THEN R(-1) ELSE R(1)])

nn_LayerNorm(x) == Normalised(x, RowMean(x))

\* AdaLN.__init__
AdaLN(dim) ==
    [gating_linear |-> Linear(dim, dim, TRUE, "gating", "none"),
     skip_linear |-> Linear(dim, dim, FALSE, "final", "none")]

\* F.sigmoid(g) * a, entry by entry.
SigmoidTimes(g, a) ==
    Tensor(a.shape, [i \in Idx(a.shape) |-> RMul(F_sigmoid(At(g, i)), At(a, i))])

\* x + y for tensors of one shape.
Plus(x, y) == Tensor(x.shape, [i \in Idx(x.shape) |-> RAdd(At(x, i), At(y, i))])

\* AdaLN.forward, the s_layer_norm's weight being its initial ones.
AdaLN_forward(module, a, s) ==
    Plus(SigmoidTimes(LinearForward(module.gating_linear, nn_LayerNorm(s)),
                      nn_LayerNorm(a)),
         LinearForward(module.skip_linear, nn_LayerNorm(s)))

\* compute_pair_attention_mask(mask) for a mask of shape [1, 1, bs, n]:
\* large_number * (1 - mask[b, i] * mask[b, j]), of shape [bs, n, n, 1].
compute_pair_attention_mask(mask, large_number) ==
    Tensor(<<mask.shape[3], mask.shape[4], mask.shape[4], 1>>,
           [i \in Idx(<<mask.shape[3], mask.shape[4], mask.shape[4], 1>>) |->
               RMul(large_number,
                    RAdd(R(1), RNeg(RMul(At(mask, <<1, 1, i[1], i[2]>>),
                                         At(mask, <<1, 1, i[1], i[3]>>)))))])

\* The output gate's bias as the gating init leaves it.
OutputGateBiasKept(dim) == BiasFilled(dim, R(1))

\* nn.Parameter(torch.ones(dim) * -2.0)
OutputGateBias(dim) == BiasFilled(dim, R(-2))

\* AttentionPairBias.__init__, dim being divisible by num_heads.
AttentionPairBias(dim, c_pair, num_heads) ==
    [class |-> "AttentionPairBias", dim |-> dim, c_pair |-> c_pair,
     num_heads |-> num_heads,
     ada_ln |-> AdaLN(dim),
     output_proj_linear |->
         [Linear(dim, dim, TRUE, "gating", "none") EXCEPT
              !.bias = OutputGateBias(dim)],
     q_linear |-> Linear(dim, dim, TRUE, "glorot", "flat"),
     k_linear |-> Linear(dim, dim, FALSE, "glorot", "ones"),
     v_linear |-> Linear(dim, dim, FALSE, "glorot", "rows"),
     linear_pair |-> Linear(c_pair, num_heads, FALSE, "default", "rows"),
     gating_linear |-> Linear(dim, dim, FALSE, "gating", "none"),
     attention_proj |-> Linear(dim, dim, FALSE, "default", "rows")]

\* linear_pair(layer_norm_pair(pair_repr)), plus the pair attention mask
\* where a mask is given: [bs, n, n, num_heads].
MaskedPairBias(pair_bias, mask) ==
    IF mask = None THEN pair_bias
    ELSE iadd(pair_bias, compute_pair_attention_mask(mask, R(-1000000))).t

\* pair_bias.permute(0, 3, 1, 2).reshape(bs * num_heads, n, n)
PermutedPairBias(b) ==
    Tensor(<<1, b.shape[1] * b.shape[4], b.shape[2], b.shape[3]>>,
           [i \in Idx(<<1, b.shape[1] * b.shape[4], b.shape[2], b.shape[3]>>) |->
               At(b, <<((i[2] - 1) \div b.shape[4]) + 1, i[3], i[4],
                       ((i[2] - 1) % b.shape[4]) + 1>>)])

\* Lines 480-488 on the attn_output that self.mha returned.
PairBiasOutput(module, output) ==
    [output |-> output,
     ret |-> Ok(SigmoidTimes(LinearForward(module.output_proj_linear, output),
                             output))]

\* Lines 482-484.
GatedProjection(module, attn_output) ==
    LinearForward(module.attention_proj,
                  SigmoidTimes(LinearForward(module.gating_linear, attn_output),
                               attn_output))

\* Lines 466-477: a, q, k, v and the attention mask handed to self.mha.
MhaInputs(module, a, pair_repr, mask) ==
    [a |-> a,
     q |-> LinearForward(module.q_linear, a),
     k |-> LinearForward(module.k_linear, a),
     v |-> LinearForward(module.v_linear, a),
     pair_bias |->
         PermutedPairBias(
             MaskedPairBias(LinearForward(module.linear_pair,
                                          nn_LayerNorm(pair_repr)), mask))]

\* AttentionPairBias.forward; attn_output is what nn.MultiheadAttention
\* returns on the q, k, v and attention mask of MhaInputs.
AttentionPairBias_forward(module, single_repr, single_proj, pair_repr, mask, attn_output) ==
    [mha |-> MhaInputs(module,
                       AdaLN_forward(module.ada_ln, single_repr, single_proj),
                       pair_repr, mask),
     out |-> PairBiasOutput(module, GatedProjection(module, attn_output))]

\* Tensors of a shape whose entries are, for draw 1, 2 and 3: all zero; the
\* parity of the index sum; the token index less the channel index.
Drawn(shape, draw) ==
    Tensor(shape, [i \in Idx(shape) |->
                      CASE draw = 1 -> RZero
                        [] draw = 2 -> R((i[2] + i[3] + i[4]) % 2)
                        [] draw = 3 -> R(i[3] - i[4])])

\* The masks over bs rows of n tokens: none, all true, true at odd tokens.
TokenMasks(bs, n) ==
    { None,
      Tensor(<<1, 1, bs, n>>, [i \in Idx(<<1, 1, bs, n>>) |-> R(1)]),
      Tensor(<<1, 1, bs, n>>, [i \in Idx(<<1, 1, bs, n>>) |-> R(i[4] % 2)]) }

\* A fresh module of two channels.
InitPairBias ==
    /\ ds4s_is_installed = FALSE
    /\ \E c_pair \in 1..2, num_heads \in HeadCounts :
         self = AttentionPairBias(2, c_pair, num_heads)
    /\ args = NoCall
    /\ pc = "idle"
    /\ locals = NoLocals
    /\ work = <<>>
    /\ ret = NoResult

\* What the call leaves: the tensors handed to self.mha, what it returned,
\* the output before the last gate, and the result.
PairBiasReturns(run, attn_output) ==
    /\ locals' = [mha |-> run.mha, attn_output |-> attn_output,
                  output |-> run.out.output]
    /\ ret' = run.out.ret
    /\ work' = <<"mha">>

\* self.forward(single_repr, single_proj, pair_repr, mask)
PairBiasForward ==
    /\ pc = "idle"
    /\ \E bs \in 1..MaxBatch, n \in 1..MaxLen, repr \in 2..3, attn \in 1..3 :
       \E mask \in TokenMasks(bs, n) :
         /\ args' = [fn |-> "forward",
                     single_repr |-> Drawn(<<1, bs, n, self.dim>>, repr),
                     single_proj |-> Drawn(<<1, bs, n, self.dim>>, 3),
                     pair_repr |-> Drawn(<<bs, n, n, self.c_pair>>, 2),
                     mask |-> mask]
         /\ PairBiasReturns(
                AttentionPairBias_forward(self, args'.single_repr,
                                          args'.single_proj, args'.pair_repr,
                                          mask,
                                          Drawn(<<1, bs, n, self.dim>>, attn)),
                Drawn(<<1, bs, n, self.dim>>, attn))
    /\ pc' = "AttentionPairBias.forward"
    /\ UNCHANGED <<ds4s_is_installed, self>>

PairBiasDone ==
    /\ pc = "AttentionPairBias.forward"
    /\ pc' = "idle"
    /\ args' = NoCall
    /\ locals' = NoLocals
    /\ work' = <<>>
    /\ ret' = NoResult
    /\ UNCHANGED <<ds4s_is_installed, self>>

NextPairBias == PairBiasForward \/ PairBiasDone

SpecPairBias == InitPairBias /\ [][NextPairBias]_vars

\* |x|
RAbs(x) == <<Abs(x[1]), x[2]>>

InitModules == InitAttention \/ InitGlobal

NextModules ==
    \/ self.class = "Attention" /\ Next
    \/ self.class = "GlobalAttention" /\ NextGlobal

SpecModules == InitModules /\ [][NextModules]_vars

\* Every entry of t is zero.
AllZero(t) == \A i \in Idx(t.shape) : At(t, i) = RZero

\* A call of either module's forward has returned a tensor.
ForwardReturned ==
    \/ pc = "returned"
    \/ pc = "GlobalAttention.forward" /\ ret.err = "none"

\* C13: the linear_o of a fresh Attention or GlobalAttention has all-zero
\* weights and a zero bias, and every call of forward that returns, whatever
\* the input, the biases, the strategy and the gating, returns a tensor of
\* the input's leading shape whose entries are all zero.
C13_FreshOutputZero ==
    /\ AllZero(self.linear_o.weight)
    /\ AllZero(self.linear_o.bias)
    /\ ForwardReturned =>
          /\ Size(ret.t.shape) > 0
          /\ AllZero(ret.t)

\* A gated Attention has returned zeros from a non-zero o under the
\* low-memory strategy with two biases.
C13_Witness ==
    /\ pc = "returned"
    /\ self.class = "Attention"
    /\ self.linear_g.weight # None
    /\ args.use_lma
    /\ Len(args.biases) = 2
    /\ ~AllZero(locals.o)
    /\ AllZero(ret.t)

(***************************************************************************)
(* Storage: which buffer each tensor of a call lives in, and which buffers *)
(* and lists the call writes in place.  A buffer is named after the caller *)
(* argument that owns it, or after the line that allocates it.             *)
(***************************************************************************)
\* The buffers the caller owns.
CallerStorages ==
    {"query", "key", "value", "q_x", "kv_x", "m", "mask", "b1", "b2", "b3"}

\* The bias lists a caller holds.
CallerLists == {<<>>, <<"b1">>, <<"b1", "b2">>, <<"b1", "b2", "b3">>}

\* A view (slice, transpose, permute, view, expand, indexing) lives in the
\* buffer of its base.
ViewOf(x) == x

\* torch.matmul and torch.einsum writing their result into the buffer of
\* their first operand.
ResultInFirstOperand(x, line) == x

\* torch.matmul and torch.einsum allocate their result.
MatmulResult(x, line) == line

\* The buffers written by "for b in biases: a += b", a living in buffer a;
\* a None in the list ends the loop with TypeError.
RECURSIVE AddInPlace(_, _)
AddInPlace(a, biases) ==
    IF biases = <<>> THEN [writes |-> <<>>, err |-> "none"]
    ELSE IF Head(biases) = "None" THEN [writes |-> <<>>, err |-> "TypeError"]
    ELSE [writes |-> <<a>> \o AddInPlace(a, Tail(biases)).writes,
          err |-> AddInPlace(a, Tail(biases)).err]

\* _attention: key is permuted (a view), a = matmul(query, key) at line 328
\* is written by every bias; softmax and the last matmul allocate.
Writes_attention(query, key, value, biases) ==
    AddInPlace(MatmulResult(ViewOf(query), "a@328"), biases)

\* n times the sequence w
RECURSIVE Repeat(_, _)
Repeat(w, n) == IF n = 0 THEN <<>> ELSE w \o Repeat(w, n - 1)

\* _lma over no_q query chunks and no_kv key chunks: o = q.new_zeros at line
\* 843; every bias is sliced at lines 846-848 (a None in the list ends the
\* call there); per key chunk a = einsum(q_chunk, k_chunk) at line 860 is
\* written by every bias chunk; per query chunk o is written at line 889.
Writes_lma(q, k, v, biases, no_q, no_kv) ==
    IF \E n \in 1..Len(biases) : biases[n] = "None"
    THEN [writes |-> <<>>, err |-> "TypeError"]
    ELSE [writes |->
              Repeat(Repeat(AddInPlace(MatmulResult(ViewOf(q), "a@860"),
                                       biases).writes, no_kv)
                     \o <<"o@843">>, no_q),
          err |-> "none"]

\* The entries of biases that are tensors.
RECURSIVE NotNone(_)
NotNone(biases) ==
    IF biases = <<>> THEN <<>>
    ELSE IF Head(biases) = "None" THEN NotNone(Tail(biases))
    ELSE <<Head(biases)>> \o NotNone(Tail(biases))

\* The bias list _attention is given for one chunk: with checkpoint the
\* first two entries of biases + [None, None] that are tensors, without it
\* the slices of all entries.
ChunkBiases(biases, checkpoint) ==
    IF checkpoint THEN NotNone(SubSeq(biases \o <<"None", "None">>, 1, 2))
    ELSE biases

\* _attention_chunked_trainable over count chunks: every chunk is a slice
\* (a view) handed to _attention; _slice_bias reads b.shape, which a None
\* does not have; torch.cat allocates.
Writes_attention_chunked_trainable(query, key, value, biases, count, checkpoint) ==
    IF checkpoint /\ Len(biases) > 2
    THEN [writes |-> <<>>, err |-> "ValueError"]
    ELSE IF ~checkpoint /\ \E n \in 1..Len(biases) : biases[n] = "None"
    THEN [writes |-> <<>>, err |-> "AttributeError"]
    ELSE [writes |->
              Repeat(Writes_attention(ViewOf(query), ViewOf(key),
                                      ViewOf(value),
                                      ChunkBiases(biases, checkpoint)).writes,
                     count),
          err |-> "none"]

\* _prep_qkv: q, k, v are views of the results of linear_q, linear_k and
\* linear_v (lines 563-565); q is divided in place when apply_scale.
Writes_prep_qkv(apply_scale) == IF apply_scale THEN <<"q@563">> ELSE <<>>

\* Whether the list _deepspeed_evo_attn was given is the one it hands to the
\* kernel: with two batch dimensions the list is not rebuilt at line 813, and
\* with a half-precision q it is not rebuilt at line 822 (lines 818-822).
SameListToKernel(batch_dims, dtype) ==
    batch_dims = 2 /\ dtype \in {"bfloat16", "float16"}

\* The list the kernel leaves behind: DeepSpeed's DS4Sci_EvoformerAttention
\* fills a list of fewer than two biases up with None, in place; pads says
\* whether the kernel build in use does.
Lists_DS4Sci_EvoformerAttention(biases, pads) ==
    IF pads /\ Len(biases) < 2
    THEN SubSeq(biases \o <<"None", "None">>, 1, 2)
    ELSE biases

\* _deepspeed_evo_attn on the list biases: the error it ends with, and the
\* list as it is afterwards.
Lists_deepspeed_evo_attn(installed, biases, batch_dims, dtype, pads) ==
    IF ~installed THEN [err |-> "ValueError", list |-> biases]
    ELSE IF SameListToKernel(batch_dims, dtype)
    THEN [err |-> "none", list |-> Lists_DS4Sci_EvoformerAttention(biases, pads)]
    ELSE IF \E n \in 1..Len(biases) : biases[n] = "None"
    THEN [err |-> "AttributeError", list |-> biases]
    ELSE [err |-> "none", list |-> biases]

\* Attention.forward on the caller's list held (passed, or None passed in its
\* place): the buffers written, the error, and the caller's list afterwards.
Writes_Attention_forward(installed, held, passed, use_deepspeed_evo_attention, use_lma, chunk_sizes_given, batch_dims, dtype, pads, no_q, no_kv) ==
    IF use_lma /\ ~chunk_sizes_given
    THEN [writes |-> <<>>, err |-> "ValueError", list |-> held]
    ELSE IF use_deepspeed_evo_attention /\ use_lma
    THEN [writes |-> <<>>, err |-> "ValueError", list |-> held]
    ELSE IF use_deepspeed_evo_attention
    THEN IF passed /\ Len(held) > 2
         THEN [writes |-> Writes_prep_qkv(FALSE), err |-> "ValueError",
               list |-> held]
         ELSE [writes |-> Writes_prep_qkv(FALSE),
               err |-> Lists_deepspeed_evo_attn(
                           installed, IF passed THEN held ELSE <<>>,
                           batch_dims, dtype, pads).err,
               list |-> IF passed
                        THEN Lists_deepspeed_evo_attn(
                                 installed, held, batch_dims, dtype,
                                 pads).list
                        ELSE held]
    ELSE IF use_lma
    THEN IF passed /\ \E n \in 1..Len(held) : held[n] = "None"
         THEN [writes |-> Writes_prep_qkv(TRUE), err |-> "AttributeError",
               list |-> held]
         ELSE [writes |-> Writes_prep_qkv(TRUE)
                          \o Writes_lma("q@563", "k@564", "v@565",
                                        IF passed THEN held ELSE <<>>,
                                        no_q, no_kv).writes,
               err |-> "none", list |-> held]
    ELSE [writes |-> Writes_prep_qkv(TRUE)
                     \o Writes_attention("q@563", "k@564", "v@565",
                                         IF passed THEN held ELSE <<>>).writes,
          err |-> Writes_attention("q@563", "k@564", "v@565",
                                   IF passed THEN held ELSE <<>>).err,
          list |-> held]

\* GlobalAttention.forward: the pooled q is the result of linear_q at line
\* 713, multiplied in place at line 714; bias is allocated at line 723;
\* a = matmul(q, k) at line 726 is written by bias.
Writes_GlobalAttention_forward(use_lma, no_q, no_kv) ==
    IF use_lma
    THEN [writes |-> <<"q@713">>
                     \o Writes_lma("q@713", "k@720", "v@721", <<"bias@723">>,
                                   no_q, no_kv).writes,
          err |-> "none"]
    ELSE [writes |-> <<"q@713">>
                     \o AddInPlace(MatmulResult(ViewOf("q@713"), "a@726"),
                                   <<"bias@723">>).writes,
          err |-> "none"]

(***************************************************************************)
(* A caller making one attention call after another on the same tensors   *)
(* and the same bias list.                                                 *)
(***************************************************************************)
\* The number of batch dimensions of q in a call of Attention.forward.
BatchDims == {1, 2, 3}

\* The dtypes of q in a call of Attention.forward.
Dtypes == {"float32", "bfloat16", "float16"}

\* What the caller holds: the bias list as it built it (given), the list as
\* it is now (biases), and the buffers of its own that have been written.
InitStorage ==
    /\ ds4s_is_installed \in BOOLEAN
    /\ self = NoModule
    /\ \E given \in CallerLists :
         args = [given |-> given, biases |-> given, written |-> {}]
    /\ pc = "caller"
    /\ locals = NoLocals
    /\ work = <<>>
    /\ ret = NoResult

\* The call ends: the buffers it wrote are logged, those of the caller are
\* marked, and the caller's list is as the call left it.
StorageReturns(fn, run, list) ==
    /\ pc' = fn
    /\ work' = run.writes
    /\ ret' = [NoResult EXCEPT !.err = run.err]
    /\ args' = [args EXCEPT
                  !.biases = list,
                  !.written = @ \cup ({run.writes[n] : n \in 1..Len(run.writes)}
                                      \cap CallerStorages)]
    /\ UNCHANGED <<ds4s_is_installed, self, locals>>

Storage_attention ==
    /\ pc = "caller"
    /\ StorageReturns("_attention",
                      Writes_attention("query", "key", "value", args.biases),
                      args.biases)

Storage_lma ==
    /\ pc = "caller"
    /\ \E no_q \in 1..MaxLen, no_kv \in 1..MaxLen :
         StorageReturns("_lma",
                        Writes_lma("query", "key", "value", args.biases,
                                   no_q, no_kv),
                        args.biases)

Storage_attention_chunked_trainable ==
    /\ pc = "caller"
    /\ \E count \in 1..MaxLen, checkpoint \in BOOLEAN :
         StorageReturns("_attention_chunked_trainable",
                        Writes_attention_chunked_trainable(
                            "query", "key", "value", args.biases, count,
                            checkpoint),
                        args.biases)

Storage_Attention_forward ==
    /\ pc = "caller"
    /\ \E passed \in BOOLEAN, use_deepspeed_evo_attention \in BOOLEAN,
          use_lma \in BOOLEAN, chunk_sizes_given \in BOOLEAN,
          batch_dims \in BatchDims, dtype \in Dtypes, pads \in BOOLEAN,
          no_q \in 1..MaxLen, no_kv \in 1..MaxLen :
         StorageReturns("Attention.forward",
                        Writes_Attention_forward(
                            ds4s_is_installed, args.biases, passed,
                            use_deepspeed_evo_attention, use_lma,
                            chunk_sizes_given, batch_dims, dtype, pads,
                            no_q, no_kv),
                        Writes_Attention_forward(
                            ds4s_is_installed, args.biases, passed,
                            use_deepspeed_evo_attention, use_lma,
                            chunk_sizes_given, batch_dims, dtype, pads,
                            no_q, no_kv).list)

Storage_GlobalAttention_forward ==
    /\ pc = "caller"
    /\ \E use_lma \in BOOLEAN, no_q \in 1..MaxLen, no_kv \in 1..MaxLen :
         StorageReturns("GlobalAttention.forward",
                        Writes_GlobalAttention_forward(use_lma, no_q, no_kv),
                        args.biases)

\* The caller goes on to its next call.
StorageNextCall ==
    /\ pc # "caller"
    /\ pc' = "caller"
    /\ work' = <<>>
    /\ ret' = NoResult
    /\ UNCHANGED <<ds4s_is_installed, self, args, locals>>

NextStorage ==
    \/ Storage_attention
    \/ Storage_lma
    \/ Storage_attention_chunked_trainable
    \/ Storage_Attention_forward
    \/ Storage_GlobalAttention_forward
    \/ StorageNextCall

SpecStorage == InitStorage /\ [][NextStorage]_vars

\* No buffer of the caller (query, key, value, q_x, kv_x, m, mask, or a bias
\* tensor) has been written by any call.
CallerTensorsKept == args.written = {}

ChunkSizes == (0 - 1)..(MaxLen + 1)

\* range(0, count, step) for a step other than 0: empty when step < 0.
RangeAnyStep(count, step) == IF step > 0 THEN Range(count, step) ELSE <<>>

\* The positions (1-based) of x[..., s : s + size] on an axis of length n.
Positions(n, s, size) == {i \in 1..n : s < i /\ i <= s + size}

\* The chunks the two loops of _lma visit, in order: per query chunk its
\* start, the rows of q[..., q_s : q_s + q_chunk_size, :] (the rows of o
\* written at line 889), and per key chunk the keys of
\* k[..., kv_s : kv_s + kv_chunk_size, :].
LmaChunks(no_q, no_kv, q_chunk_size, kv_chunk_size) ==
    [c \in 1..Len(RangeAnyStep(no_q, q_chunk_size)) |->
        [q_s |-> RangeAnyStep(no_q, q_chunk_size)[c],
         rows |-> Positions(no_q, RangeAnyStep(no_q, q_chunk_size)[c],
                            q_chunk_size),
         keys |-> [d \in 1..Len(RangeAnyStep(no_kv, kv_chunk_size)) |->
                      Positions(no_kv, RangeAnyStep(no_kv, kv_chunk_size)[d],
                                kv_chunk_size)]]]

\* _lma for any integer chunk sizes: range() rejects a step of 0 (lines 844,
\* 853); with a negative q_chunk_size the query loop has no iteration and o
\* is returned as allocated; with a negative kv_chunk_size the key loop has
\* none and torch.stack at line 875 gets an empty list.
LmaAnySizes(q, k, v, biases, q_chunk_size, kv_chunk_size) ==
    IF q_chunk_size = 0 THEN Raise("ValueError")
    ELSE IF q_chunk_size < 0
    THEN Ok(Tensor(q.shape, [i \in Idx(q.shape) |-> RZero]))
    ELSE IF kv_chunk_size = 0 THEN Raise("ValueError")
    ELSE IF kv_chunk_size < 0 THEN Raise("RuntimeError")
    ELSE _lma(q, k, v, biases, q_chunk_size, kv_chunk_size)

\* A call of _lma: its result, and in work the chunks visited when it
\* returns.
Call_lma_sized ==
    /\ pc = "idle"
    /\ \E qcs \in ChunkSizes, kcs \in ChunkSizes :
         /\ args' = [args EXCEPT !.q_chunk_size = qcs, !.kv_chunk_size = kcs]
         /\ ret' = LmaAnySizes(args.q, args.k, args.v, args.biases, qcs, kcs)
         /\ work' = IF LmaAnySizes(args.q, args.k, args.v, args.biases,
                                   qcs, kcs).err = "none"
                    THEN LmaChunks(args.q.shape[3], args.k.shape[3], qcs, kcs)
                    ELSE <<>>
    /\ pc' = "_lma"
    /\ UNCHANGED <<ds4s_is_installed, self, locals>>

Return_lma_sized ==
    /\ pc = "_lma"
    /\ pc' = "idle"
    /\ args' = [args EXCEPT !.q_chunk_size = 0, !.kv_chunk_size = 0]
    /\ ret' = NoResult
    /\ work' = <<>>
    /\ UNCHANGED <<ds4s_is_installed, self, locals>>

NextSized == Call_lma_sized \/ Return_lma_sized

SpecSized == InitLma /\ [][NextSized]_vars

\* The query chunks come in increasing query order and every row of the
\* axis lies in exactly one of them.
QueryAxisTiled(chunks, no_q) ==
    /\ \A c \in 1..Len(chunks), d \in 1..Len(chunks) :
         c < d => \A i \in chunks[c].rows, j \in chunks[d].rows : i < j
    /\ \A i \in 1..no_q :
         Cardinality({c \in 1..Len(chunks) : i \in chunks[c].rows}) = 1

\* Within every query chunk every key lies in exactly one key chunk.
KeyAxisTiled(chunks, no_kv) ==
    \A c \in 1..Len(chunks) : \A j \in 1..no_kv :
        Cardinality({d \in 1..Len(chunks[c].keys) : j \in chunks[c].keys[d]}) = 1

\* Every (query, key) pair is in exactly one (query chunk, key chunk) step.
PairsOnce(chunks, no_q, no_kv) ==
    \A i \in 1..no_q, j \in 1..no_kv :
        Cardinality({x \in {<<c, d>> : c \in 1..Len(chunks), d \in 1..MaxLen + 1} :
                        /\ x[2] <= Len(chunks[x[1]].keys)
                        /\ i \in chunks[x[1]].rows
                        /\ j \in chunks[x[1]].keys[x[2]]}) = 1

\* No row of the returned tensor is all zero (the values v are positive, so
\* a row that was written is not).
NoRowLeftZero(t) ==
    \A i \in Idx(t.shape) : \E c \in 1..t.shape[4] : At(t, SetAt(i, 4, c)) # RZero

\* A call of _lma has returned a tensor.
LmaReturned == pc = "_lma" /\ ret.err = "none"

\* The chunks of the call tile both axes and its output has no zero row.
Tiled ==
    /\ QueryAxisTiled(work, args.q.shape[3])
    /\ KeyAxisTiled(work, args.k.shape[3])
    /\ PairsOnce(work, args.q.shape[3], args.k.shape[3])
    /\ NoRowLeftZero(ret.t)

\* C15 as stated: for every chunk size the call accepts, the query chunks
\* tile the query axis in increasing order, the key chunks tile the key axis
\* within each query chunk, every (query, key) pair is in exactly one step,
\* and every row of the output is written once, none left zero.
C15_AsStated == LmaReturned => Tiled

\* For chunk sizes of at least 1 the call tiles both axes and leaves no row
\* of the output zero.
PositiveSizesTile ==
    (LmaReturned /\ args.q_chunk_size >= 1 /\ args.kv_chunk_size >= 1) => Tiled

\* A call with a negative q_chunk_size has returned: no chunk was visited
\* and the output is the zero tensor.
C15_NegativeQueryChunk ==
    /\ LmaReturned
    /\ args.q_chunk_size < 0
    /\ work = <<>>
    /\ AllZero(ret.t)
    /\ args.q.shape[3] = MaxLen

(***************************************************************************)
(* _lma on masked keys, with the quantities of the merge (lines 875-887).  *)
(***************************************************************************)
\* The value a key mask puts on a masked key (0 on the others): the
\* substitute for minus infinity, below every logit difference drawn.
MaskingConstant == R(0 - 1)

\* The logits q.k drawn lie in [0, LogitSpread].
LogitSpread == <<1, 4>>

\* The steps of the key loop for the query chunk starting at q_s.
LmaSteps(q, k, v, biases, q_s, q_chunk_size, kv_chunk_size) ==
    Eager([c \in 1..Len(Range(k.shape[3], kv_chunk_size)) |->
        LmaKvStep(SliceDim(q, 3, q_s, q_s + q_chunk_size), k, v,
                  Eager([n \in 1..Len(biases) |->
                      SliceDim(biases[n], 3, q_s, q_s + q_chunk_size)]),
                  Range(k.shape[3], kv_chunk_size)[c], kv_chunk_size)])

\* global_max = torch.max(chunk_max, dim=-3, keepdim=True)[0]
LmaGlobalMax(steps) ==
    Tensor(steps[1].max.shape,
           [i \in Idx(steps[1].max.shape) |->
               RMaxTo([c \in 1..Len(steps) |-> At(steps[c].max, i)], Len(steps))])

\* max_diffs left at 1: the chunks are summed without re-scaling.
MaxDiffsOne(steps) ==
    Eager([c \in 1..Len(steps) |->
        Tensor(steps[c].max.shape, [i \in Idx(steps[c].max.shape) |-> R(1)])])

\* max_diffs = torch.exp(chunk_max - global_max), per key chunk
LmaMaxDiffs(steps) ==
    Eager([c \in 1..Len(steps) |-> ExpShifted(steps[c].max, LmaGlobalMax(steps))])

\* t * d, d of t's shape but for a last axis of length 1.
TimesRows(t, d) ==
    Tensor(t.shape, [i \in Idx(t.shape) |-> RMul(At(t, i), At(d, SetAt(i, 4, 1)))])

\* chunk_weights = chunk_weights * max_diffs, per key chunk
LmaChunkWeights(steps, max_diffs) ==
    Eager([c \in 1..Len(steps) |-> TimesRows(steps[c].weight, max_diffs[c])])

\* chunk_values = chunk_values * max_diffs.unsqueeze(-1), per key chunk
LmaChunkValues(steps, max_diffs) ==
    Eager([c \in 1..Len(steps) |-> TimesRows(steps[c].value, max_diffs[c])])

\* torch.sum over the key chunks
SumChunks(chunks) ==
    Tensor(chunks[1].shape,
           [i \in Idx(chunks[1].shape) |->
               RSumTo([c \in 1..Len(chunks) |-> At(chunks[c], i)], Len(chunks))])

\* What the merge of one query chunk computes at lines 875-887.
LmaMerged(q_s, keys, steps, max_diffs) ==
    [q_s |-> q_s,
     keys |-> keys,
     chunk_max |-> Eager([c \in 1..Len(steps) |-> steps[c].max]),
     global_max |-> LmaGlobalMax(steps),
     chunk_weights |-> LmaChunkWeights(steps, max_diffs),
     chunk_values |-> LmaChunkValues(steps, max_diffs),
     all_weights |-> SumChunks(LmaChunkWeights(steps, max_diffs)),
     all_values |-> SumChunks(LmaChunkValues(steps, max_diffs)),
     q_chunk_out |-> LmaMerge(steps)]

\* The merges of a call of _lma, one per query chunk.
LmaMerges(q, k, v, biases, q_chunk_size, kv_chunk_size) ==
    [n \in 1..Len(Range(q.shape[3], q_chunk_size)) |->
        LmaMerged(Range(q.shape[3], q_chunk_size)[n],
                  [d \in 1..Len(Range(k.shape[3], kv_chunk_size)) |->
                      Positions(k.shape[3],
                                Range(k.shape[3], kv_chunk_size)[d],
                                kv_chunk_size)],
                  LmaSteps(q, k, v, biases,
                           Range(q.shape[3], q_chunk_size)[n],
                           q_chunk_size, kv_chunk_size),
                  LmaMaxDiffs(LmaSteps(q, k, v, biases,
                                       Range(q.shape[3], q_chunk_size)[n],
                                       q_chunk_size, kv_chunk_size)))]

\* Queries 0 or 1, keys 0 or 1/4, values 1..K, and no bias or a key mask
\* (MaskingConstant on the masked keys) expanded to [1, 1, Q, K].
InitMasked ==
    /\ ds4s_is_installed = FALSE
    /\ self = NoModule
    /\ \E Q \in 1..MaxLen, K \in 1..MaxLen :
         \E qf \in [1..Q -> Vals], kf \in [1..K -> Vals],
            bs \in {<<>>} \cup {<<expand(Row(m, K), Q, K).t>> :
                                   m \in [1..K -> {0, MaskingConstant[1]}]} :
            args = [q |-> Column(qf, Q),
                    k |-> Tensor(<<1, 1, K, 1>>,
                                 [i \in Idx(<<1, 1, K, 1>>) |->
                                     RMul(R(kf[i[3]]), LogitSpread)]),
                    v |-> Column([n \in 1..K |-> n], K), biases |-> bs,
                    q_chunk_size |-> 0, kv_chunk_size |-> 0]
    /\ pc = "idle"
    /\ locals = NoLocals
    /\ work = <<>>
    /\ ret = NoResult

\* A call of _lma: its result, and in work the merge of every query chunk.
Call_lma_masked ==
    /\ pc = "idle"
    /\ \E qcs \in 1..(MaxLen + 1), kcs \in 1..(MaxLen + 1) :
         /\ args' = [args EXCEPT !.q_chunk_size = qcs, !.kv_chunk_size = kcs]
         /\ ret' = _lma(args.q, args.k, args.v, args.biases, qcs, kcs)
         /\ work' = LmaMerges(args.q, args.k, args.v, args.biases, qcs, kcs)
    /\ pc' = "_lma"
    /\ UNCHANGED <<ds4s_is_installed, self, locals>>

NextMasked == Call_lma_masked \/ Return_lma_sized

SpecMasked == InitMasked /\ [][NextMasked]_vars

\* x <= y
RLeq(x, y) == ~RLess(y, x)

\* The key chunk d of the merge w is entirely masked.
AllMasked(w, d) ==
    /\ Len(args.biases) = 1
    /\ \A j \in w.keys[d] :
         At(args.biases[1], <<1, 1, 1, j>>) = MaskingConstant

\* The key chunk d of the merge w has a key that is not masked.
HasUnmasked(w, d) ==
    \/ args.biases = <<>>
    \/ \E j \in w.keys[d] : At(args.biases[1], <<1, 1, 1, j>>) = RZero

\* What a masked key weighs at most against an unmasked one.
MaskedWeight == Exp(RAdd(MaskingConstant, LogitSpread))

\* C16: in every merge of _lma, for every query row all_weights is at least
\* 1 (the weight of the key attaining the global maximum), and the output
\* is all_values / all_weights; a key chunk that is entirely masked, when
\* another chunk has an unmasked key, has a maximum below the global
\* maximum, and its re-scaled weight and values are at most MaskedWeight
\* per key (times the value).
C16_WeightsPositive ==
    (pc = "_lma") =>
        /\ ret.err = "none"
        /\ \A n \in 1..Len(work) :
             /\ \A i \in Idx(work[n].all_weights.shape) :
                  RLeq(R(1), At(work[n].all_weights, i))
             /\ \A i \in Idx(work[n].q_chunk_out.shape) :
                  /\ At(work[n].q_chunk_out, i)
                       = RDiv(At(work[n].all_values, i),
                              At(work[n].all_weights, SetAt(i, 4, 1)))
                  /\ At(ret.t, SetAt(i, 3, i[3] + work[n].q_s))
                       = At(work[n].q_chunk_out, i)
             /\ \A d \in 1..Len(work[n].keys) :
                  (AllMasked(work[n], d)
                   /\ \E e \in 1..Len(work[n].keys) : HasUnmasked(work[n], e))
                  => \A i \in Idx(work[n].global_max.shape) :
                       /\ RLess(At(work[n].chunk_max[d], i),
                                At(work[n].global_max, i))
                       /\ \E e \in 1..Len(work[n].keys) :
                            /\ HasUnmasked(work[n], e)
                            /\ At(work[n].chunk_max[e], i)
                                 = At(work[n].global_max, i)
                       /\ RLess(RZero, At(work[n].chunk_weights[d], i))
                       /\ RLeq(At(work[n].chunk_weights[d], i),
                               RMul(R(Cardinality(work[n].keys[d])),
                                    MaskedWeight))
                       /\ RLeq(At(work[n].chunk_values[d], i),
                               RMul(R(Cardinality(work[n].keys[d])
                                      * args.k.shape[3]),
                                    MaskedWeight))

\* A merge of two key chunks, the first entirely masked and holding the key
\* with the larger product q.k, the second unmasked: the second supplies the
\* global maximum and the first weighs less than MaskedWeight.
C16_Witness ==
    /\ pc = "_lma"
    /\ ret.err = "none"
    /\ Len(work) >= 1
    /\ Len(work[1].keys) = 2
    /\ AllMasked(work[1], 1)
    /\ HasUnmasked(work[1], 2)
    /\ At(args.q, <<1, 1, 1, 1>>) = R(1)
    /\ At(args.k, <<1, 1, 1, 1>>) = LogitSpread
    /\ At(args.k, <<1, 1, 2, 1>>) = RZero
    /\ At(work[1].global_max, <<1, 1, 1, 1>>) = RZero
    /\ At(work[1].chunk_weights[1], <<1, 1, 1, 1>>) = MaskedWeight
    /\ RLess(R(1), At(work[1].all_weights, <<1, 1, 1, 1>>))

====
